---- MODULE Spec2Model ----
(***************************************************************************)
(* Student Finance Tracker: the persistent Store (storage.js), the query   *)
(* engine (search.js, validators.js) and the application state controller  *)
(* (state.js).                                                             *)
(*                                                                         *)
(* Numbers.  Amounts, budgets and rates are JavaScript doubles with two    *)
(* decimals; they are modelled as integers counting hundredths (100.00 is  *)
(* 10000, the rate 1452.49 is 145249).  convertCurrency is computed in     *)
(* exact arithmetic on hundredths and rounded as toFixed(2) rounds (ties   *)
(* away from zero); the binary representation error of doubles is not      *)
(* modelled.                                                               *)
(*                                                                         *)
(* JSON.  localStorage holds a text.  A text is modelled by what           *)
(* JSON.parse makes of it: Doc("garbage") does not parse, Doc("null"),     *)
(* Doc("scalar") and Doc("array") parse to null, to a number/string/       *)
(* boolean and to an array, ObjText(o) parses to the object o, a function  *)
(* from the keys that are present to their values.  JSON.stringify is      *)
(* ToJSON: it writes NaN as null.                                          *)
(***************************************************************************)
EXTENDS Integers, Sequences, FiniteSets, TLC

VARIABLES
    storage,    \* localStorage[STORAGE_KEY]: a text or Absent
    now,        \* the clock, in milliseconds (Date.now(), new Date())
    calls,      \* the number of calls made so far
    last,       \* the last Store call: its name, argument, result and the storage before it
    state,      \* state.js: the snapshot
    tasks,      \* the microtask queue: the continuations of the commands in flight
    notified,   \* the snapshots the latest step passed to notifySubscribers, in order
    done,       \* the command that completed last, with what it resolved to
    subscribers, \* state.js: the array of subscribed callbacks
    uiState,    \* ui.js: uiState (the transaction the form is editing)
    defaults    \* storage.js: the objects defaultData.settings and defaultData.transactions

\* ------------------------------------------------------------------ bounds
MaxCalls == 2       \* the calls made in one run, after module load
MaxClock == 1       \* the clock stops advancing here

\* --------------------------------------------------------------- constants
DEFAULT_CURRENCY == "USD"
DEFAULT_CATEGORIES == <<"Food", "Books", "Transport", "Entertainment", "Fees", "Other">>
BASE_CURRENCY == "RWF"
USD_TO_RWF == 145249
EURO_TO_RWF == 168140

\* JavaScript values outside the numbers
Null == 0 - 999999    \* null
NaN == 0 - 888888     \* NaN, and undefined where a number is expected
IsNumber(x) == x # Null /\ x # NaN
Truthy(x) == x # Null /\ x # NaN /\ x # 0

\* ------------------------------------------------------------ JSON values
Empty == [x \in {} |-> 0]                       \* {}
Spread(a, b) == [x \in (DOMAIN a) \cup (DOMAIN b) |-> IF x \in DOMAIN b THEN b[x] ELSE a[x]]  \* {...a, ...b}
Has(o, key) == key \in DOMAIN o
Set(o, key, val) == [x \in (DOMAIN o) \cup {key} |-> IF x = key THEN val ELSE o[x]]

Absent == [k |-> "absent"]
Doc(kind) == [k |-> kind]
ObjText(o) == [k |-> "object", v |-> o]
NotAList == <<[notAnArray |-> TRUE]>>           \* any JSON value that is not an array
IsArray(x) == x # NotAList

\* JSON.stringify of a number
NumToJSON(x) == IF x = NaN THEN Null ELSE x
TxToJSON(tx) == IF Has(tx, "amount") THEN Set(tx, "amount", NumToJSON(tx.amount)) ELSE tx
ToJSON(data) == [data EXCEPT !.transactions = [i \in 1..Len(@) |-> TxToJSON(@[i])]]

\* ------------------------------------------------------------ the Store
defaultSettings ==
    [currency |-> DEFAULT_CURRENCY, monthlyBudget |-> Null, categories |-> DEFAULT_CATEGORIES,
     usdToRwf |-> USD_TO_RWF, eurToRwf |-> EURO_TO_RWF]

defaultData ==
    [version |-> "1.0.0", settings |-> defaultSettings, transactions |-> <<>>, lastUpdated |-> 0]

\* the two objects of defaultData that the copy { ...defaultData } shares with it
sharedDefaults == [settings |-> defaultData.settings, transactions |-> defaultData.transactions]

\* the merge of a parsed object over the defaults (loadData 86-95, importData 344-352)
MergeDefaults(parsed) ==
    LET top == Spread(defaultData, parsed)
        s == IF Has(parsed, "settings") THEN parsed.settings ELSE Empty
        txs == IF Has(parsed, "transactions") /\ IsArray(parsed.transactions)
               THEN parsed.transactions ELSE <<>>
    IN  [top EXCEPT !.settings = Spread(defaultData.settings, s), !.transactions = txs]

\* a load that spreads the parsed object over the defaults at the top level only
loadData_shallowMerge(st) ==
    IF st.k = "object" THEN Spread(defaultData, st.v) ELSE defaultData

loadData(st) ==
    CASE st.k = "absent" -> defaultData
      [] st.k = "garbage" -> defaultData          \* JSON.parse throws
      [] st.k = "null" -> defaultData             \* parsed.settings throws
      [] st.k = "scalar" -> defaultData           \* spreads nothing; no settings, no list
      [] st.k = "array" -> defaultData
      [] OTHER -> MergeDefaults(st.v)

\* saveData(data): the text written and the result; ok = the write is accepted
saveData(st, data, t, ok) ==
    IF ok THEN [store |-> ObjText(ToJSON([data EXCEPT !.lastUpdated = t])), ret |-> TRUE]
    ELSE [store |-> st, ret |-> FALSE]

getTransactions(st) == loadData(st).transactions
getSettings(st) == Spread(defaultSettings, loadData(st).settings)

\* ---------------------------------------------------------------- strings
\* String.prototype.toLowerCase on the names the model uses
toLowerCase(s) ==
    CASE s = "Food" -> "food"
      [] s = "FOOD" -> "food"
      [] s = "Books" -> "books"
      [] s = "Transport" -> "transport"
      [] s = "Entertainment" -> "entertainment"
      [] s = "Fees" -> "fees"
      [] s = "Other" -> "other"
      [] s = "Rent" -> "rent"
      [] s = "Lunch" -> "lunch"
      [] s = "Novel" -> "novel"
      [] s = "Bus" -> "bus"
      [] OTHER -> s

\* String.prototype.trim
trim(s) ==
    CASE s = " " -> ""
      [] s = " Rent " -> "Rent"
      [] OTHER -> s

\* Array.from(new Set(list)): the first occurrence of every element, in order
RECURSIVE Dedup(_)
Dedup(list) ==
    IF list = <<>> THEN <<>>
    ELSE LET front == Dedup(SubSeq(list, 1, Len(list) - 1))
             x == list[Len(list)]
         IN  IF \E i \in 1..Len(front) : front[i] = x THEN front ELSE Append(front, x)

Includes(list, x) == \E i \in 1..Len(list) : list[i] = x

\* ------------------------------------------------------------- currencies
getAvailableCurrencies == <<"RWF", "USD", "EUR">>

\* n / d rounded to the nearest integer, ties away from zero (toFixed)
RoundDiv(n, d) ==
    LET a == IF n >= 0 THEN n ELSE 0 - n
        q == a \div d
        m == IF 2 * (a % d) >= d THEN q + 1 ELSE q
    IN  IF n >= 0 THEN m ELSE 0 - m

\* getCurrencyRates: the RWF price, in hundredths, of one unit of each currency
\* (the code's rates[c] is its reciprocal; a code it does not list gets rate 1)
rwfPer(st, currency) ==
    LET settings == getSettings(st)
        usdToRwf == IF Truthy(settings.usdToRwf) THEN settings.usdToRwf ELSE USD_TO_RWF
        eurToRwf == IF Truthy(settings.eurToRwf) THEN settings.eurToRwf ELSE EURO_TO_RWF
    IN  CASE currency = "USD" -> usdToRwf
          [] currency = "EUR" -> eurToRwf
          [] OTHER -> 100

\* a conversion that applies the two rates the wrong way round
convertCurrency_inverted(st, amount, fromCurrency, toCurrency) ==
    IF fromCurrency = toCurrency \/ amount = NaN \/ amount = Null THEN amount
    ELSE RoundDiv(amount * rwfPer(st, toCurrency), rwfPer(st, fromCurrency))

\* convertCurrency(amount, from, to) with the rates of the persisted settings
convertCurrency(st, amount, fromCurrency, toCurrency) ==
    IF fromCurrency = toCurrency THEN amount
    ELSE IF amount = NaN THEN NaN                       \* NaN.toFixed(2) is "NaN"
    ELSE IF amount = Null THEN 0                        \* null / r is 0
    ELSE RoundDiv(amount * rwfPer(st, fromCurrency), rwfPer(st, toCurrency))

\* transaction.amount, undefined when the field is missing (undefined / r is NaN)
AmountOf(tx) == IF Has(tx, "amount") THEN tx.amount ELSE NaN

\* ----------------------------------------------------- Store: transactions
\* parseFloat of a form value
parseFloat(s) ==
    CASE s = "100" -> 10000
      [] s = "12.50" -> 1250
      [] s = "12.5" -> 1250
      [] s = "80" -> 8000
      [] OTHER -> NaN

DateOf(t) == "2025-01-15"          \* new Date().toISOString().split('T')[0]

addStoredTransaction(st, transaction, t, ok) ==
    LET data == loadData(st)
        date == IF Has(transaction, "date") /\ transaction.date # "" THEN transaction.date ELSE DateOf(t)
        amount == IF Has(transaction, "amount") THEN parseFloat(transaction.amount) ELSE NaN
        newTransaction ==
            Spread(transaction,
                   [id |-> t, amount |-> amount, date |-> date, createdAt |-> t, updatedAt |-> t])
    IN  saveData(st, [data EXCEPT !.transactions = <<newTransaction>> \o @], t, ok)

\* findIndex: 0 when no element has the id
IndexOfId(txs, id) ==
    IF \E i \in 1..Len(txs) : Has(txs[i], "id") /\ txs[i].id = id
    THEN CHOOSE i \in 1..Len(txs) :
            /\ Has(txs[i], "id") /\ txs[i].id = id
            /\ \A j \in 1..(i - 1) : ~(Has(txs[j], "id") /\ txs[j].id = id)
    ELSE 0

updateStoredTransaction(st, id, updates, t, ok) ==
    LET data == loadData(st)
        index == IndexOfId(data.transactions, id)
    IN  IF index = 0 THEN [store |-> st, ret |-> FALSE]
        ELSE saveData(st,
                 [data EXCEPT !.transactions[index] = Set(Spread(@, updates), "updatedAt", t)],
                 t, ok)

\* a delete that saves whether or not something was removed
deleteStoredTransaction_alwaysSaves(st, id, t, ok) ==
    LET data == loadData(st)
        NotId(tx) == ~(Has(tx, "id") /\ tx.id = id)
    IN  saveData(st, [data EXCEPT !.transactions = SelectSeq(@, NotId)], t, ok)

deleteStoredTransaction(st, id, t, ok) ==
    LET data == loadData(st)
        NotId(tx) == ~(Has(tx, "id") /\ tx.id = id)
        kept == SelectSeq(data.transactions, NotId)
    IN  IF Len(kept) < Len(data.transactions)
        THEN saveData(st, [data EXCEPT !.transactions = kept], t, ok)
        ELSE [store |-> st, ret |-> FALSE]

\* --------------------------------------------------------- Store: settings
\* an update that writes the patch over the default settings
updateStoredSettings_replacesSettings(st, newSettings, t, ok) ==
    LET data == loadData(st)
    IN  saveData(st, [data EXCEPT !.settings = Spread(defaultSettings, newSettings)], t, ok)

\* an update that merges the patch first and converts the merged budget
updateStoredSettings_convertsPatchBudget(st, newSettings, t, ok) ==
    LET data == loadData(st)
        cur == data.settings.currency
        oldCurrency == IF cur = "" THEN DEFAULT_CURRENCY ELSE cur
        changes == Has(newSettings, "currency") /\ newSettings.currency # ""
                   /\ newSettings.currency # oldCurrency
        merged == Spread(data.settings, newSettings)
        txs == IF changes
               THEN [i \in 1..Len(data.transactions) |->
                        Set(data.transactions[i], "amount",
                            convertCurrency(st, AmountOf(data.transactions[i]), oldCurrency,
                                            newSettings.currency))]
               ELSE data.transactions
        budget == IF changes /\ Truthy(merged.monthlyBudget)
                  THEN convertCurrency(st, merged.monthlyBudget, oldCurrency, newSettings.currency)
                  ELSE merged.monthlyBudget
    IN  saveData(st, [data EXCEPT !.transactions = txs,
                                  !.settings = [merged EXCEPT !.monthlyBudget = budget]], t, ok)

updateStoredSettings(st, newSettings, t, ok) ==
    LET data == loadData(st)
        cur == data.settings.currency
        oldCurrency == IF cur = "" THEN DEFAULT_CURRENCY ELSE cur
        changes == Has(newSettings, "currency") /\ newSettings.currency # ""
                   /\ newSettings.currency # oldCurrency
        newCurrency == newSettings.currency
        txs == IF changes
               THEN [i \in 1..Len(data.transactions) |->
                        Set(data.transactions[i], "amount",
                            convertCurrency(st, AmountOf(data.transactions[i]), oldCurrency, newCurrency))]
               ELSE data.transactions
        budget == IF changes /\ Truthy(data.settings.monthlyBudget)
                  THEN convertCurrency(st, data.settings.monthlyBudget, oldCurrency, newCurrency)
                  ELSE data.settings.monthlyBudget
        settings == Spread([data.settings EXCEPT !.monthlyBudget = budget], newSettings)
    IN  saveData(st, [data EXCEPT !.transactions = txs, !.settings = settings], t, ok)

\* the categories of the settings alone, the defaults left out
getStoredCategories_settingsOnly(st) == Dedup(getSettings(st).categories)

getStoredCategories(st) == Dedup(DEFAULT_CATEGORIES \o getSettings(st).categories)

addStoredCategory(st, category, t, ok) ==
    IF category = "" THEN [store |-> st, ret |-> FALSE]
    ELSE LET categories == Dedup(getSettings(st).categories)
             normalizedNewCategory == trim(category)
             categoryExists == \E i \in 1..Len(categories) :
                                   toLowerCase(categories[i]) = toLowerCase(normalizedNewCategory)
         IN  IF categoryExists THEN [store |-> st, ret |-> FALSE]
             ELSE updateStoredSettings(st, [categories |-> Append(categories, normalizedNewCategory)], t, ok)

deleteStoredCategory(st, category, t, ok) ==
    IF category = "" THEN [store |-> st, ret |-> FALSE]
    ELSE LET categories == Dedup(getSettings(st).categories)
             Matches(cat) == toLowerCase(cat) = toLowerCase(category)
             found == \E i \in 1..Len(categories) : Matches(categories[i])
             categoryToDelete ==
                 categories[CHOOSE i \in 1..Len(categories) :
                               Matches(categories[i]) /\ \A j \in 1..(i - 1) : ~Matches(categories[j])]
             Other(cat) == cat # categoryToDelete
         IN  IF ~found \/ Includes(DEFAULT_CATEGORIES, categoryToDelete)
             THEN [store |-> st, ret |-> FALSE]
             ELSE updateStoredSettings(st, [categories |-> SelectSeq(categories, Other)], t, ok)

\* clearAllData(): localStorage.removeItem(STORAGE_KEY)
clearAllData(st) == [store |-> Absent, ret |-> TRUE]

\* ---------------------------------------------------- Store: import/export
\* an export of the transactions alone
exportData_transactionsOnly(st) == ObjText([transactions |-> getTransactions(st)])

exportData(st) == ObjText(ToJSON(loadData(st)))         \* JSON.stringify(loadData(), null, 2)

NullRecord == [isNull |-> TRUE]                 \* null where a record is expected

\* an import that takes the parsed settings as they are, without the defaults under them
importData_settingsReplaced(st, text, t, ok) ==
    IF text.k \in {"garbage", "null", "scalar"} THEN [store |-> st, ret |-> NullRecord]
    ELSE LET data == IF text.k = "array" THEN Empty ELSE text.v
             transactions == IF Has(data, "transactions") /\ IsArray(data.transactions)
                             THEN data.transactions ELSE <<>>
             importedData == [Spread(defaultData, data) EXCEPT !.transactions = transactions]
             saved == saveData(st, importedData, t, ok)
         IN  IF saved.ret THEN [store |-> saved.store, ret |-> importedData]
             ELSE [store |-> st, ret |-> NullRecord]

\* importData(text): ret is the imported record, or null
importData(st, text, t, ok) ==
    IF text.k \in {"garbage", "null", "scalar"} THEN [store |-> st, ret |-> NullRecord]
    ELSE LET data == IF text.k = "array" THEN Empty ELSE text.v
             settings == Spread(defaultData.settings,
                                IF Has(data, "settings") THEN data.settings ELSE Empty)
             transactions == IF Has(data, "transactions") /\ IsArray(data.transactions)
                             THEN data.transactions ELSE <<>>
             importedData == [Spread(defaultData, data) EXCEPT
                                 !.settings = settings, !.transactions = transactions]
             saved == saveData(st, importedData, t, ok)
         IN  IF saved.ret THEN [store |-> saved.store, ret |-> importedData]
             ELSE [store |-> st, ret |-> NullRecord]

\* ------------------------------------------------------------------ inputs
Drafts ==
    { [description |-> "Lunch", amount |-> "100", category |-> "Food", date |-> "2025-01-10"],
      [id |-> 7, description |-> "Bus", amount |-> "abc", category |-> "Transport"] }

TxPatches ==
    { [amount |-> 8000, category |-> "Fees"],
      [id |-> 7, createdAt |-> 1] }

Ids == (0..MaxClock) \cup {7}

SettingsPatches ==
    { [currency |-> "RWF"], [currency |-> "USD"], [currency |-> "EUR"], [currency |-> "GBP"],
      [monthlyBudget |-> 10000],
      [categories |-> <<"food", "Rent">>],
      [currency |-> "RWF", monthlyBudget |-> 5000, usdToRwf |-> 150000, eurToRwf |-> EURO_TO_RWF] }

CategoryNames == {"Food", "FOOD", "Rent", " ", ""}

ImportTexts ==
    { Doc("garbage"), Doc("null"), Doc("scalar"), Doc("array"),
      ObjText([settings |-> [currency |-> "EUR"], transactions |-> NotAList]),
      ObjText([version |-> "0.9.0",
               transactions |-> << [id |-> 7, amount |-> 500, date |-> "2025-01-11"] >>]) }

Queries == {"", "lunch", "("}
Pages == {1, 2}
Sections == {"transactions", "add-transaction"}
CategoryFilters == {"", "FOOD"}
SortBys == {"date-desc", "amount-asc", "description-asc"}

\* ------------------------------------------------------------- Store calls
Call(op, arg, ok, res) ==
    /\ calls < MaxCalls
    /\ calls' = calls + 1
    /\ storage' = res.store
    /\ last' = [op |-> op, arg |-> arg, ret |-> res.ret, pre |-> storage, at |-> now, accept |-> ok]
    /\ UNCHANGED <<state, tasks, notified, done, subscribers, uiState, defaults>>

Tick ==
    /\ now < MaxClock
    /\ now' = now + 1
    /\ UNCHANGED <<storage, calls, last, state, tasks, notified, done, subscribers, uiState, defaults>>

StoreAddTransaction ==
    \E draft \in Drafts, ok \in BOOLEAN :
        /\ Call("addTransaction", draft, ok, addStoredTransaction(storage, draft, now, ok))
        /\ UNCHANGED now

StoreUpdateTransaction ==
    \E id \in Ids, updates \in TxPatches, ok \in BOOLEAN :
        /\ Call("updateTransaction", [id |-> id, updates |-> updates], ok,
                updateStoredTransaction(storage, id, updates, now, ok))
        /\ UNCHANGED now

StoreDeleteTransaction ==
    \E id \in Ids, ok \in BOOLEAN :
        /\ Call("deleteTransaction", id, ok, deleteStoredTransaction(storage, id, now, ok))
        /\ UNCHANGED now

StoreUpdateSettings ==
    \E newSettings \in SettingsPatches, ok \in BOOLEAN :
        /\ Call("updateSettings", newSettings, ok, updateStoredSettings(storage, newSettings, now, ok))
        /\ UNCHANGED now

StoreAddCategory ==
    \E category \in CategoryNames, ok \in BOOLEAN :
        /\ Call("addCategory", category, ok, addStoredCategory(storage, category, now, ok))
        /\ UNCHANGED now

StoreDeleteCategory ==
    \E category \in CategoryNames, ok \in BOOLEAN :
        /\ Call("deleteCategory", category, ok, deleteStoredCategory(storage, category, now, ok))
        /\ UNCHANGED now

StoreImportData ==
    \E text \in ImportTexts, ok \in BOOLEAN :
        /\ Call("importData", text, ok, importData(storage, text, now, ok))
        /\ UNCHANGED now

StoreClearAllData ==
    /\ Call("clearAllData", 0, TRUE, clearAllData(storage))
    /\ UNCHANGED now

\* importData(exportData())
StoreExportImport ==
    \E ok \in BOOLEAN :
        /\ Call("exportImport", exportData(storage), ok, importData(storage, exportData(storage), now, ok))
        /\ UNCHANGED now

vars == <<storage, now, calls, last, state, tasks, notified, done, subscribers, uiState, defaults>>

\* What localStorage holds when the module loads: nothing (a first visit), or the
\* record an earlier session left, here two transactions added and a budget set
\* before this session's clock starts.
EarlierSession ==
    LET a == addStoredTransaction(Absent, [description |-> "Lunch", amount |-> "100",
                                           category |-> "Food", date |-> "2025-01-10"], 0 - 2, TRUE).store
        b == addStoredTransaction(a, [description |-> "Novel", amount |-> "12.50",
                                      category |-> "Books"], 0 - 1, TRUE).store
    IN  updateStoredSettings(b, [monthlyBudget |-> 10000], 0 - 1, TRUE).store

\* state.js: the initial value of state
initialState ==
    [currentSection |-> "dashboard", isLoading |-> FALSE, error |-> "null",
     transactions |-> <<>>, filteredTransactions |-> <<>>, categories |-> <<>>, settings |-> Empty,
     searchQuery |-> "", selectedCategory |-> "", sortBy |-> "date-desc",
     isEditing |-> FALSE, currentTransactionId |-> Null, currentPage |-> 1, itemsPerPage |-> 10]

\* ui.js: the initial value of uiState
initialUiState == [currentTransactionId |-> Null]

NoCommand == [cmd |-> "none"]
NoCall == [op |-> "init", arg |-> 0, ret |-> TRUE, pre |-> Absent, at |-> 0, accept |-> TRUE]

\* storage.js is loaded: init() writes the defaults when the key is absent (366-371)
StoreLoaded ==
    /\ calls = 0
    /\ now = 0
    /\ \E found \in {Absent, EarlierSession}, ok \in BOOLEAN :
          storage = IF found = Absent THEN saveData(Absent, defaultData, now, ok).store ELSE found
    /\ last = NoCall

\* the Store alone, its functions called directly
StoreInit ==
    /\ StoreLoaded
    /\ state = initialState
    /\ tasks = <<>>
    /\ notified = <<>>
    /\ done = NoCommand
    /\ subscribers = <<>>
    /\ uiState = initialUiState
    /\ defaults = sharedDefaults

StoreNext ==
    \/ Tick
    \/ StoreAddTransaction
    \/ StoreUpdateTransaction
    \/ StoreDeleteTransaction
    \/ StoreUpdateSettings
    \/ StoreAddCategory
    \/ StoreDeleteCategory
    \/ StoreImportData
    \/ StoreClearAllData
    \/ StoreExportImport

SpecStore == StoreInit /\ [][StoreNext]_vars

\* ====================================================================
\* The query engine (validators.js, search.js)
\* ====================================================================
LongQuery == "aaaaaaaaaaaaaaaaaaaaaaaaaaaaaaaaaaaaaaaaaaaaaaaaaaa"      \* 51 characters

\* new RegExp(value, 'i') does not throw
Compiles(value) == value \notin {"(", "[a-"}

\* regex.test(text) for the patterns the model uses; text = "undefined" for a
\* missing field
RegexTest(pattern, text) ==
    LET t == toLowerCase(text)
    IN  CASE pattern = "lunch" -> t = "lunch"
          [] pattern = "oo" -> t \in {"food", "books"}
          [] pattern = LongQuery -> FALSE
          [] OTHER -> FALSE

\* validateSearchPattern(value): isValid, and whether a regex is returned
validateSearchPattern(value) ==
    IF value = "" \/ trim(value) = "" THEN [isValid |-> TRUE, regex |-> FALSE]
    ELSE IF ~Compiles(value) THEN [isValid |-> FALSE, regex |-> FALSE]
    ELSE IF Len(value) > 50 THEN [isValid |-> FALSE, regex |-> FALSE]
    ELSE [isValid |-> TRUE, regex |-> TRUE]

\* sortBy.split('-'): the field and the direction ('desc' when there is none)
SortField(sortBy) ==
    CASE sortBy \in {"date-desc", "date-asc", "date"} -> "date"
      [] sortBy \in {"amount-desc", "amount-asc"} -> "amount"
      [] sortBy \in {"category-desc", "category-asc"} -> "category"
      [] sortBy \in {"description-desc", "description-asc"} -> "description"
      [] OTHER -> "unknown"
SortOrder(sortBy) ==
    IF sortBy \in {"date-asc", "amount-asc", "category-asc", "description-asc", "bogus-asc"}
    THEN 1 ELSE 0 - 1

\* new Date(date).getTime(), as a day number; NaN for a missing or invalid date
DateKey(tx) ==
    IF ~Has(tx, "date") THEN NaN
    ELSE CASE tx.date = "2025-01-10" -> 10
           [] tx.date = "2025-01-11" -> 11
           [] tx.date = "2025-01-12" -> 12
           [] tx.date = "2025-01-15" -> 15
           [] OTHER -> NaN

\* parseFloat(a.amount) of a stored amount
AmountKey(tx) == IF Has(tx, "amount") /\ tx.amount # Null THEN tx.amount ELSE NaN

\* the place of a lower-case string in the order of <
StrRank(s) ==
    CASE s = "" -> 0
      [] s = "books" -> 1
      [] s = "bus" -> 2
      [] s = "entertainment" -> 3
      [] s = "fees" -> 4
      [] s = "food" -> 5
      [] s = "lunch" -> 6
      [] s = "novel" -> 7
      [] s = "other" -> 8
      [] s = "rent" -> 9
      [] s = "transport" -> 10
      [] OTHER -> 11

Sign(n) == IF n > 0 THEN 1 ELSE IF n < 0 THEN 0 - 1 ELSE 0

\* the comparator of sortTransactions: the sign of its result (NaN counts as 0)
Compare(a, b, sortBy) ==
    LET field == SortField(sortBy)
        key(tx) == CASE field = "date" -> DateKey(tx)
                     [] field = "amount" -> AmountKey(tx)
                     [] field = "category" -> StrRank(toLowerCase(tx.category))
                     [] OTHER -> StrRank(toLowerCase(tx.description))
    IN  IF key(a) = NaN \/ key(b) = NaN THEN 0
        ELSE Sign(key(a) - key(b)) * SortOrder(sortBy)

\* the comparator throws: a.category / a.description is undefined
CompareThrows(tx, sortBy) ==
    CASE SortField(sortBy) \in {"date", "amount"} -> FALSE
      [] SortField(sortBy) = "category" -> ~Has(tx, "category")
      [] OTHER -> ~Has(tx, "description")

\* Array.prototype.sort with that comparator: a stable sort (insertion)
RECURSIVE InsertSorted(_, _, _)
InsertSorted(sorted, x, sortBy) ==
    IF sorted = <<>> THEN <<x>>
    ELSE IF Compare(sorted[Len(sorted)], x, sortBy) > 0
         THEN Append(InsertSorted(SubSeq(sorted, 1, Len(sorted) - 1), x, sortBy), sorted[Len(sorted)])
         ELSE Append(sorted, x)

RECURSIVE StableSort(_, _)
StableSort(list, sortBy) ==
    IF list = <<>> THEN <<>>
    ELSE InsertSorted(StableSort(SubSeq(list, 1, Len(list) - 1), sortBy), list[Len(list)], sortBy)

Returned(value) == [threw |-> FALSE, value |-> value]
Thrown == [threw |-> TRUE, value |-> <<>>]

sortTransactions(transactions, sortBy) ==
    IF Len(transactions) >= 2 /\ \E i \in 1..Len(transactions) : CompareThrows(transactions[i], sortBy)
    THEN Thrown
    ELSE Returned(StableSort(transactions, sortBy))

\* searchTransactions(transactions, {query, category, sortBy, limit}): the list
\* returned, or Thrown when a TypeError escapes
searchTransactions(transactions, query, category, sortBy, limit) ==
    LET InCategory(tx) == toLowerCase(tx.category) = toLowerCase(category)
        byCategory == IF category # "" THEN SelectSeq(transactions, InCategory) ELSE transactions
        v == validateSearchPattern(query)
        Text(tx, field) == IF Has(tx, field) THEN tx[field] ELSE "undefined"
        Matches(tx) == RegexTest(query, Text(tx, "description")) \/ RegexTest(query, Text(tx, "category"))
        byQuery == IF query # "" /\ v.isValid /\ v.regex THEN SelectSeq(byCategory, Matches) ELSE byCategory
        sorted == sortTransactions(byQuery, sortBy)
    IN  IF category # "" /\ \E i \in 1..Len(transactions) : ~Has(transactions[i], "category")
        THEN Thrown
        ELSE IF query # "" /\ ~v.isValid THEN Returned(<<>>)
        ELSE IF sorted.threw THEN Thrown
        ELSE IF limit > 0 THEN Returned(SubSeq(sorted.value, 1, IF limit < Len(sorted.value) THEN limit ELSE Len(sorted.value)))
        ELSE sorted

\* ====================================================================
\* The application state controller (state.js)
\* ====================================================================
\* A command runs from its call to its first await in one step; each await defers
\* the rest by one microtask (Promise.all by two), and the microtasks run in the
\* order they were queued.  A caller may issue a command whenever no step is
\* running, also while other commands are in flight.

applyFilters(transactions, query, category, sortBy) ==
    searchTransactions(transactions, query, category, sortBy, 0)

\* setState(updates) within a step: c = [state, notified] so far; by = the command
Run0 == [state |-> state, notified |-> <<>>]
setState(c, updates, store, by) ==
    LET next == Spread(c.state, updates)
    IN  [state |-> next,
         notified |-> Append(c.notified, [snap |-> next, store |-> store, by |-> by])]

Command(cmd, arg) == [cmd |-> cmd, arg |-> arg, pre |-> state, preStore |-> storage]

\* the continuation of a command: where it resumes, the microtasks it still waits,
\* what the Store call returned and the values it has fetched
Task(by, pc, hops, ret, transactions, settings) ==
    [by |-> by, pc |-> pc, hops |-> hops, ret |-> ret,
     transactions |-> transactions, settings |-> settings]

Completed(by, ret, result, threw, c, store) ==
    [cmd |-> by.cmd, arg |-> by.arg, pre |-> by.pre, preStore |-> by.preStore,
     ret |-> ret, result |-> result, threw |-> threw, post |-> c.state, postStore |-> store]

Issue ==
    /\ calls < MaxCalls
    /\ calls' = calls + 1
    /\ UNCHANGED <<now, last, subscribers, uiState, defaults>>

Resume(cmd, pc) ==
    /\ tasks # <<>>
    /\ Head(tasks).by.cmd = cmd
    /\ Head(tasks).pc = pc
    /\ Head(tasks).hops = 1
    /\ UNCHANGED <<now, last, calls, subscribers, uiState, defaults>>

\* a microtask that only brings a continuation nearer (Promise.all's element job)
Hop ==
    /\ tasks # <<>>
    /\ Head(tasks).hops > 1
    /\ tasks' = Append(Tail(tasks), [Head(tasks) EXCEPT !.hops = @ - 1])
    /\ notified' = <<>>
    /\ UNCHANGED <<storage, now, calls, last, state, done, subscribers, uiState, defaults>>

\* ---- loadInitialData (466-496); its first part runs when the module loads
loadInitialData_loaded ==
    LET t == Head(tasks)
        categories == getStoredCategories(storage)
        f == applyFilters(t.transactions, state.searchQuery, state.selectedCategory, state.sortBy)
        c == IF f.threw
             THEN setState(Run0, [error |-> "Failed to load data. Please try refreshing the page.",
                                  isLoading |-> FALSE], storage, t.by)
             ELSE setState(Run0, [transactions |-> t.transactions, settings |-> t.settings,
                                  categories |-> categories, filteredTransactions |-> f.value,
                                  isLoading |-> FALSE], storage, t.by)
    IN  /\ Resume("loadInitialData", 1)
        /\ state' = c.state
        /\ notified' = c.notified
        /\ tasks' = Tail(tasks)
        /\ done' = Completed(t.by, TRUE, ~f.threw, FALSE, c, storage)
        /\ UNCHANGED storage

\* ---- addTransaction, updateTransaction, deleteTransaction (515-613)
\* up to the first await: setState({isLoading: true}), then the Store call
StartStoreCommand(by, res) ==
    LET c == setState(Run0, [isLoading |-> TRUE], storage, by)
    IN  /\ Issue
        /\ state' = c.state
        /\ notified' = c.notified
        /\ storage' = res.store
        /\ tasks' = Append(tasks, Task(by, 1, 1, res.ret, <<>>, Empty))
        /\ UNCHANGED done

\* const transactions = await getStoredTransactions()
FetchTransactions(cmd) ==
    /\ Resume(cmd, 1)
    /\ tasks' = Append(Tail(tasks), [Head(tasks) EXCEPT !.pc = 2, !.transactions = getTransactions(storage)])
    /\ notified' = <<>>
    /\ UNCHANGED <<storage, state, done>>

\* a final setState whose view is derived with the search fields the command saw
\* when it was called
FinishStoreCommand_filtersAtCall(cmd, extra, message) ==
    LET t == Head(tasks)
        f == applyFilters(t.transactions, t.by.pre.searchQuery, t.by.pre.selectedCategory,
                          t.by.pre.sortBy)
        c == IF f.threw
             THEN setState(Run0, [error |-> message, isLoading |-> FALSE], storage, t.by)
             ELSE setState(Run0, Spread([transactions |-> t.transactions,
                                         filteredTransactions |-> f.value,
                                         isLoading |-> FALSE], extra), storage, t.by)
    IN  /\ Resume(cmd, 2)
        /\ state' = c.state
        /\ notified' = c.notified
        /\ tasks' = Tail(tasks)
        /\ done' = Completed(t.by, t.ret, ~f.threw, FALSE, c, storage)
        /\ UNCHANGED storage

\* a final setState that also clears the error of an earlier failure
FinishStoreCommand_clearsError(cmd, extra, message) ==
    LET t == Head(tasks)
        f == applyFilters(t.transactions, state.searchQuery, state.selectedCategory, state.sortBy)
        c == IF f.threw
             THEN setState(Run0, [error |-> message, isLoading |-> FALSE], storage, t.by)
             ELSE setState(Run0, Spread([transactions |-> t.transactions,
                                         filteredTransactions |-> f.value, error |-> "null",
                                         isLoading |-> FALSE], extra), storage, t.by)
    IN  /\ Resume(cmd, 2)
        /\ state' = c.state
        /\ notified' = c.notified
        /\ tasks' = Tail(tasks)
        /\ done' = Completed(t.by, t.ret, ~f.threw, FALSE, c, storage)
        /\ UNCHANGED storage

\* the final setState, or the catch block when applyFilters throws
FinishStoreCommand(cmd, extra, message) ==
    LET t == Head(tasks)
        f == applyFilters(t.transactions, state.searchQuery, state.selectedCategory, state.sortBy)
        c == IF f.threw
             THEN setState(Run0, [error |-> message, isLoading |-> FALSE], storage, t.by)
             ELSE setState(Run0, Spread([transactions |-> t.transactions,
                                         filteredTransactions |-> f.value,
                                         isLoading |-> FALSE], extra), storage, t.by)
    IN  /\ Resume(cmd, 2)
        /\ state' = c.state
        /\ notified' = c.notified
        /\ tasks' = Tail(tasks)
        /\ done' = Completed(t.by, t.ret, ~f.threw, FALSE, c, storage)
        /\ UNCHANGED storage

addTransaction ==
    \E transaction \in Drafts, ok \in BOOLEAN :
        StartStoreCommand(Command("addTransaction", transaction),
                          addStoredTransaction(storage, transaction, now, ok))
addTransaction_fetch == FetchTransactions("addTransaction")
addTransaction_finish ==
    FinishStoreCommand("addTransaction", Empty, "Failed to add transaction. Please try again.")

updateTransaction ==
    \E id \in Ids, updates \in TxPatches, ok \in BOOLEAN :
        StartStoreCommand(Command("updateTransaction", [id |-> id, updates |-> updates]),
                          updateStoredTransaction(storage, id, updates, now, ok))
updateTransaction_fetch == FetchTransactions("updateTransaction")
\* an update that leaves the editing fields as they are
updateTransaction_finish_keepsEditing ==
    FinishStoreCommand("updateTransaction", Empty, "Failed to update transaction. Please try again.")

updateTransaction_finish ==
    FinishStoreCommand("updateTransaction", [isEditing |-> FALSE, currentTransactionId |-> Null],
                       "Failed to update transaction. Please try again.")

deleteTransaction ==
    \E id \in Ids, ok \in BOOLEAN :
        StartStoreCommand(Command("deleteTransaction", id),
                          deleteStoredTransaction(storage, id, now, ok))
deleteTransaction_fetch == FetchTransactions("deleteTransaction")
deleteTransaction_finish ==
    FinishStoreCommand("deleteTransaction", Empty, "Failed to delete transaction. Please try again.")

\* ---- setSearchQuery, setSelectedCategory, setSortBy (619-669): no await; an
\* exception of applyFilters reaches the caller and state is left as it was
SetFilter(by, f, updates) ==
    LET c == IF f.threw THEN Run0
             ELSE setState(Run0, Spread(updates, [filteredTransactions |-> f.value]), storage, by)
    IN  /\ Issue
        /\ state' = c.state
        /\ notified' = c.notified
        /\ done' = Completed(by, TRUE, ~f.threw, f.threw, c, storage)
        /\ UNCHANGED <<storage, tasks>>

setSearchQuery ==
    \E query \in Queries :
        SetFilter(Command("setSearchQuery", query),
                  applyFilters(state.transactions, query, state.selectedCategory, state.sortBy),
                  [searchQuery |-> query, currentPage |-> 1])

setSelectedCategory ==
    \E category \in CategoryFilters :
        SetFilter(Command("setSelectedCategory", category),
                  applyFilters(state.transactions, state.searchQuery, category, state.sortBy),
                  [selectedCategory |-> category, currentPage |-> 1])

setSortBy ==
    \E sortBy \in SortBys :
        SetFilter(Command("setSortBy", sortBy),
                  applyFilters(state.transactions, state.searchQuery, state.selectedCategory, sortBy),
                  [sortBy |-> sortBy])

\* ---- setCurrentPage, navigateTo, startEditingTransaction,
\* cancelEditingTransaction (675-710): one setState each
SetFields(by, updates) ==
    LET c == setState(Run0, updates, storage, by)
    IN  /\ Issue
        /\ state' = c.state
        /\ notified' = c.notified
        /\ done' = Completed(by, TRUE, TRUE, FALSE, c, storage)
        /\ UNCHANGED <<storage, tasks>>

setCurrentPage ==
    \E page \in Pages :
        SetFields(Command("setCurrentPage", page), [currentPage |-> page])

navigateTo ==
    \E sectionId \in Sections :
        SetFields(Command("navigateTo", sectionId),
                  [currentSection |-> sectionId, isEditing |-> FALSE, currentTransactionId |-> Null])

startEditingTransaction ==
    \E id \in Ids :
        SetFields(Command("startEditingTransaction", id),
                  [isEditing |-> TRUE, currentTransactionId |-> id])

cancelEditingTransaction ==
    SetFields(Command("cancelEditingTransaction", 0),
              [isEditing |-> FALSE, currentTransactionId |-> Null])

\* ---- updateSettings (717-738)
updateSettings ==
    \E newSettings \in SettingsPatches, ok \in BOOLEAN :
        StartStoreCommand(Command("updateSettings", newSettings),
                          updateStoredSettings(storage, newSettings, now, ok))

\* const settings = await getStoredSettings()
updateSettings_fetch ==
    /\ Resume("updateSettings", 1)
    /\ tasks' = Append(Tail(tasks), [Head(tasks) EXCEPT !.pc = 2, !.settings = getSettings(storage)])
    /\ notified' = <<>>
    /\ UNCHANGED <<storage, state, done>>

updateSettings_finish ==
    LET t == Head(tasks)
        c == setState(Run0, [settings |-> t.settings, isLoading |-> FALSE], storage, t.by)
    IN  /\ Resume("updateSettings", 2)
        /\ state' = c.state
        /\ notified' = c.notified
        /\ tasks' = Tail(tasks)
        /\ done' = Completed(t.by, t.ret, TRUE, FALSE, c, storage)
        /\ UNCHANGED storage

\* ---- addCategory, deleteCategory (745-795): one await, then the categories are
\* read from the Store; the value the Store call resolved to is not looked at
FinishCategoryCommand(cmd) ==
    LET t == Head(tasks)
        c == setState(Run0, [categories |-> getStoredCategories(storage), isLoading |-> FALSE],
                      storage, t.by)
    IN  /\ Resume(cmd, 1)
        /\ state' = c.state
        /\ notified' = c.notified
        /\ tasks' = Tail(tasks)
        /\ done' = Completed(t.by, t.ret, TRUE, FALSE, c, storage)
        /\ UNCHANGED storage

addCategory ==
    \E category \in CategoryNames, ok \in BOOLEAN :
        StartStoreCommand(Command("addCategory", category),
                          addStoredCategory(storage, category, now, ok))
addCategory_finish == FinishCategoryCommand("addCategory")

deleteCategory ==
    \E category \in CategoryNames, ok \in BOOLEAN :
        StartStoreCommand(Command("deleteCategory", category),
                          deleteStoredCategory(storage, category, now, ok))
deleteCategory_finish == FinishCategoryCommand("deleteCategory")

\* ---- importAllData (810-850)
importAllData ==
    \E jsonString \in ImportTexts, ok \in BOOLEAN :
        LET by == Command("importAllData", jsonString)
            c1 == setState(Run0, [isLoading |-> TRUE], storage, by)
            res == importData(storage, jsonString, now, ok)
            c2 == setState(c1, [error |-> "Failed to import data. The file may be corrupted or in an incorrect format.",
                                isLoading |-> FALSE], res.store, by)
        IN  /\ Issue
            /\ storage' = res.store
            /\ IF res.ret = NullRecord
               THEN /\ state' = c2.state
                    /\ notified' = c2.notified
                    /\ done' = Completed(by, FALSE, FALSE, FALSE, c2, res.store)
                    /\ UNCHANGED tasks
               ELSE /\ state' = c1.state
                    /\ notified' = c1.notified
                    /\ tasks' = Append(tasks, Task(by, 1, 2, TRUE, getTransactions(res.store),
                                                   getSettings(res.store)))
                    /\ UNCHANGED done

\* a last step of importAllData whose catch block sets the error only
importAllData_loaded_catchKeepsLoading ==
    LET t == Head(tasks)
        categories == getStoredCategories(storage)
        f == applyFilters(t.transactions, state.searchQuery, state.selectedCategory, state.sortBy)
        c == IF f.threw
             THEN setState(Run0, [error |-> "Failed to import data. The file may be corrupted or in an incorrect format."],
                           storage, t.by)
             ELSE setState(Run0, [transactions |-> t.transactions, settings |-> t.settings,
                                  categories |-> categories, filteredTransactions |-> f.value,
                                  isLoading |-> FALSE], storage, t.by)
    IN  /\ Resume("importAllData", 1)
        /\ state' = c.state
        /\ notified' = c.notified
        /\ tasks' = Tail(tasks)
        /\ done' = Completed(t.by, t.ret, ~f.threw, FALSE, c, storage)
        /\ UNCHANGED storage

importAllData_loaded ==
    LET t == Head(tasks)
        categories == getStoredCategories(storage)
        f == applyFilters(t.transactions, state.searchQuery, state.selectedCategory, state.sortBy)
        c == IF f.threw
             THEN setState(Run0, [error |-> "Failed to import data. The file may be corrupted or in an incorrect format.",
                                  isLoading |-> FALSE], storage, t.by)
             ELSE setState(Run0, [transactions |-> t.transactions, settings |-> t.settings,
                                  categories |-> categories, filteredTransactions |-> f.value,
                                  isLoading |-> FALSE], storage, t.by)
    IN  /\ Resume("importAllData", 1)
        /\ state' = c.state
        /\ notified' = c.notified
        /\ tasks' = Tail(tasks)
        /\ done' = Completed(t.by, t.ret, ~f.threw, FALSE, c, storage)
        /\ UNCHANGED storage

\* ---- clearAllTransactions (914-935)
\* state.js imports clearTransactions from storage.js (387), which exports no such
\* name.  Where the module is loaded at all, the binding is undefined and the call
\* clearStoredTransactions() throws a TypeError inside the try block, before
\* anything is awaited: the catch block runs in the same step.
clearAllTransactions ==
    LET by == Command("clearAllTransactions", 0)
        c1 == setState(Run0, [isLoading |-> TRUE], storage, by)
        c2 == setState(c1, [isLoading |-> FALSE], storage, by)
    IN  /\ Issue
        /\ state' = c2.state
        /\ notified' = c2.notified
        /\ done' = Completed(by, FALSE, FALSE, FALSE, c2, storage)
        /\ UNCHANGED <<storage, tasks>>

\* storage.js and then state.js are loaded: loadInitialData() has run to its await
Init ==
    /\ StoreLoaded
    /\ LET by == [cmd |-> "loadInitialData", arg |-> 0, pre |-> initialState, preStore |-> storage]
           c == setState([state |-> initialState, notified |-> <<>>], [isLoading |-> TRUE], storage, by)
       IN  /\ state = c.state
           /\ notified = c.notified
           /\ tasks = <<Task(by, 1, 2, TRUE, getTransactions(storage), getSettings(storage))>>
    /\ done = NoCommand
    /\ subscribers = <<>>
    /\ uiState = initialUiState
    /\ defaults = sharedDefaults

Clock ==
    /\ Tick

Next ==
    \/ Clock
    \/ Hop
    \/ loadInitialData_loaded
    \/ addTransaction
    \/ addTransaction_fetch
    \/ addTransaction_finish
    \/ updateTransaction
    \/ updateTransaction_fetch
    \/ updateTransaction_finish
    \/ deleteTransaction
    \/ deleteTransaction_fetch
    \/ deleteTransaction_finish
    \/ setSearchQuery
    \/ setSelectedCategory
    \/ setSortBy
    \/ updateSettings
    \/ updateSettings_fetch
    \/ updateSettings_finish
    \/ importAllData
    \/ importAllData_loaded
    \/ clearAllTransactions

Spec == Init /\ [][Next]_vars

\* ====================================================================
\* Properties of the Store (checked under SpecStore)
\* ====================================================================
Txs(st) == loadData(st).transactions
IdsOf(txs) == {txs[i].id : i \in {j \in 1..Len(txs) : Has(txs[j], "id")}}
Num(x) == IF x = Null THEN 0 ELSE x

\* the rate table of a settings record, as the RWF price in hundredths of one unit
RateOf(settings, currency) ==
    CASE currency = "USD" -> settings.usdToRwf
      [] currency = "EUR" -> settings.eurToRwf
      [] OTHER -> 100

\* r is n / d rounded to the nearest integer, a tie going away from zero
IsRounded(r, n, d) ==
    IF n >= 0 THEN 2 * (r * d - n) <= d /\ 2 * (n - r * d) < d
    ELSE 2 * (n - r * d) <= d /\ 2 * (r * d - n) < d

\* new is old converted between the two currencies under the rates of settings
IsConverted(new, old, settings, from, to) ==
    IsRounded(new, Num(old) * RateOf(settings, from), RateOf(settings, to))

CurrencyOnlyChange ==
    /\ last.op = "updateSettings"
    /\ DOMAIN last.arg = {"currency"}
    /\ last.arg.currency # loadData(last.pre).settings.currency
    /\ last.accept

\* C1: a Store updateSettings({currency: C2}) whose write is accepted, with C2
\* different from the current currency C1, leaves in the persisted record every
\* transaction's amount equal to the old amount converted from C1 to C2 under the
\* rates persisted before the call, the budget (if it was set) converted likewise,
\* settings.currency = C2, and the number, order and ids of the transactions as
\* they were.
C1_CurrencyRewrite ==
    CurrencyOnlyChange =>
        LET old == loadData(last.pre)
            new == loadData(storage)
            from == old.settings.currency
            to == last.arg.currency
        IN  /\ last.ret = TRUE
            /\ new.settings.currency = to
            /\ Len(new.transactions) = Len(old.transactions)
            /\ \A i \in 1..Len(old.transactions) :
                  /\ new.transactions[i].id = old.transactions[i].id
                  /\ IsConverted(new.transactions[i].amount, old.transactions[i].amount,
                                 old.settings, from, to)
            /\ IF Truthy(old.settings.monthlyBudget)
               THEN IsConverted(new.settings.monthlyBudget, old.settings.monthlyBudget,
                                old.settings, from, to)
               ELSE new.settings.monthlyBudget = old.settings.monthlyBudget

\* the spec's example: 100 in USD at 1452.49 becomes 145249 in RWF, with a budget set
C1_Witness ==
    /\ CurrencyOnlyChange
    /\ last.arg.currency = "RWF"
    /\ loadData(last.pre).settings.currency = "USD"
    /\ loadData(last.pre).settings.usdToRwf = 145249
    /\ Truthy(loadData(last.pre).settings.monthlyBudget)
    /\ \E i \in 1..Len(Txs(storage)) :
          Txs(last.pre)[i].amount = 10000 /\ Txs(storage)[i].amount = 14524900

\* C3: in every reachable state of the Store no two persisted transactions have the
\* same id, whatever the clock does between two addTransaction calls.
C3_UniqueIds ==
    \A i, j \in 1..Len(Txs(storage)) : i # j => Txs(storage)[i].id # Txs(storage)[j].id

\* C4: deleteCategory(name) with name one of the default categories returns false
\* and leaves settings.categories as it was, in every persisted settings state.
C4_DefaultsProtected ==
    (last.op = "deleteCategory" /\ Includes(DEFAULT_CATEGORIES, last.arg)) =>
        /\ last.ret = FALSE
        /\ loadData(storage).settings.categories = loadData(last.pre).settings.categories

\* C5: deleteTransaction(id) with an id no persisted transaction has returns false
\* and writes nothing: the backing store is what it was before the call.
C5_DeleteAbsent ==
    (last.op = "deleteTransaction" /\ last.arg \notin IdsOf(Txs(last.pre))) =>
        last.ret = FALSE /\ storage = last.pre

\* a delete of an absent id on a non-empty list, at a moment the store would take a write
C5_Witness ==
    /\ last.op = "deleteTransaction"
    /\ last.arg \notin IdsOf(Txs(last.pre))
    /\ Len(Txs(last.pre)) > 0
    /\ last.accept
    /\ last.at > loadData(last.pre).lastUpdated

\* what JSON.parse makes of the text is an object (typeof 'object' and not null;
\* an array is one)
ParsesToObject(text) == text.k \in {"object", "array"}

SameRecord(a, b) ==
    /\ DOMAIN a = DOMAIN b
    /\ \A key \in DOMAIN a \ {"lastUpdated"} : a[key] = b[key]

\* C9: importData(exportData()) whose write is accepted, run on any reachable
\* persisted record R, returns a record equal to R and leaves a persisted record
\* equal to R, lastUpdated excepted.
C9_RoundTrip ==
    (last.op = "exportImport" /\ last.accept) =>
        /\ last.ret # NullRecord
        /\ SameRecord(last.ret, loadData(last.pre))
        /\ SameRecord(loadData(storage), loadData(last.pre))

\* a round trip of a record with transactions and settings that are not the defaults
C9_Witness ==
    /\ last.op = "exportImport"
    /\ last.accept
    /\ Len(Txs(last.pre)) >= 2
    /\ loadData(last.pre).settings # defaultSettings
    /\ last.at > loadData(last.pre).lastUpdated

\* the value of a field, or nothing for a missing field
Field(o, key) == IF Has(o, key) THEN <<o[key]>> ELSE <<>>

\* an accepted updateSettings that changes the currency and carries a rate
RatesAndCurrencyChange ==
    /\ last.op = "updateSettings"
    /\ last.accept
    /\ Has(last.arg, "currency")
    /\ last.arg.currency # loadData(last.pre).settings.currency
    /\ (Has(last.arg, "usdToRwf") \/ Has(last.arg, "eurToRwf"))

\* C14: when Store updateSettings(patch) changes the currency and patch carries
\* usdToRwf and/or eurToRwf, the amounts (and the budget, when the patch does not
\* replace it) are rewritten under the rates of the patch, not under the rates
\* stored before the call
C14_PatchRatesConvert ==
    RatesAndCurrencyChange =>
        LET old == loadData(last.pre)
            new == loadData(storage)
            rates == Spread(old.settings, last.arg)
            from == old.settings.currency
            to == last.arg.currency
        IN  /\ Len(new.transactions) = Len(old.transactions)
            /\ \A i \in 1..Len(old.transactions) :
                  IsConverted(new.transactions[i].amount, old.transactions[i].amount, rates, from, to)
            /\ (Truthy(old.settings.monthlyBudget) /\ ~Has(last.arg, "monthlyBudget")) =>
                  IsConverted(new.settings.monthlyBudget, old.settings.monthlyBudget, rates, from, to)

\* C15: Store updateTransaction(id, patch) on an existing id leaves that
\* transaction's id and createdAt as they were, whatever the patch carries, sets
\* its updatedAt to the time of the call when the write is accepted, and leaves
\* every other transaction unchanged
C15_IdAndCreatedAtKept ==
    (last.op = "updateTransaction" /\ IndexOfId(Txs(last.pre), last.arg.id) # 0) =>
        LET old == Txs(last.pre)
            new == Txs(storage)
            index == IndexOfId(old, last.arg.id)
        IN  /\ Len(new) = Len(old)
            /\ Field(new[index], "id") = Field(old[index], "id")
            /\ Field(new[index], "createdAt") = Field(old[index], "createdAt")
            /\ last.accept => new[index].updatedAt = last.at
            /\ \A j \in 1..Len(old) : j # index => new[j] = old[j]

\* a name that is empty or only whitespace
IsBlank(name) == trim(name) = ""

\* C16: Store addCategory(name) returns false and leaves the persisted settings
\* unchanged when name is blank or is, ignoring case, already in getCategories();
\* otherwise (the write being accepted) it adds the trimmed name and returns true
C16_AddCategory ==
    last.op = "addCategory" =>
        LET known == getStoredCategories(last.pre)
            present == \E i \in 1..Len(known) : toLowerCase(known[i]) = toLowerCase(trim(last.arg))
        IN  IF IsBlank(last.arg) \/ present
            THEN last.ret = FALSE /\ getSettings(storage) = getSettings(last.pre)
            ELSE last.accept =>
                    /\ last.ret = TRUE
                    /\ Includes(getSettings(storage).categories, trim(last.arg))

\* C17: in every reachable state of the Store getCategories() contains every
\* default category and contains no name twice
C17_CategoriesUnion ==
    LET categories == getStoredCategories(storage)
    IN  /\ \A i \in 1..Len(DEFAULT_CATEGORIES) : Includes(categories, DEFAULT_CATEGORIES[i])
        /\ \A i, j \in 1..Len(categories) : i # j => categories[i] # categories[j]

\* the settings categories have lost defaults and hold a name of their own, or
\* repeat the defaults and hold a name of their own
C17_Witness ==
    /\ last.op \in {"updateSettings", "addCategory"}
    /\ last.ret = TRUE
    /\ Includes(getSettings(storage).categories, "Rent")
    /\ Len(getStoredCategories(storage)) = Len(DEFAULT_CATEGORIES) + Len(getSettings(storage).categories)
           - (IF Includes(getSettings(storage).categories, "Food") THEN Len(DEFAULT_CATEGORIES) ELSE 0)


\* ====================================================================
\* Properties of the controller (checked under Spec)
\* ====================================================================

\* the command of delivery n changes the currency (the Store and the snapshot had
\* another one when it was called), and n carries the new currency
DeliversNewCurrency(n) ==
    /\ n.by.cmd = "updateSettings"
    /\ Has(n.by.arg, "currency")
    /\ getSettings(n.by.preStore).currency # n.by.arg.currency
    /\ Has(n.by.pre.settings, "currency")
    /\ n.by.pre.settings.currency # n.by.arg.currency
    /\ Has(n.snap.settings, "currency")
    /\ n.snap.settings.currency = n.by.arg.currency

\* C2: every snapshot a subscriber receives from an updateSettings that changes the
\* currency, and that carries the new currency in settings, also carries the
\* converted amounts (snapshot.transactions is the Store's persisted list) and the
\* converted budget
C2_NoPartialCurrencyChange ==
    \A i \in 1..Len(notified) :
        DeliversNewCurrency(notified[i]) =>
            /\ notified[i].snap.transactions = getTransactions(notified[i].store)
            /\ notified[i].snap.settings.monthlyBudget = getSettings(notified[i].store).monthlyBudget

\* C6: when the Store call of addTransaction, updateTransaction or deleteTransaction
\* returns false, the command resolves to false, the snapshot carries an error
\* message and transactions / filteredTransactions are those before the command
C6_StoreFailureReported ==
    (/\ done.cmd \in {"addTransaction", "updateTransaction", "deleteTransaction"}
     /\ done.ret = FALSE)
    => /\ done.result = FALSE
       /\ done.post.error # "null"
       /\ done.post.transactions = done.pre.transactions
       /\ done.post.filteredTransactions = done.pre.filteredTransactions

\* C7: when importAllData(text) resolves to false nothing was imported: the
\* persisted record and the snapshot's transactions, settings, categories and
\* filteredTransactions are those before the call
C7_FailedImportChangesNothing ==
    (done.cmd = "importAllData" /\ done.result = FALSE)
    => /\ done.postStore = done.preStore
       /\ done.post.transactions = done.pre.transactions
       /\ done.post.settings = done.pre.settings
       /\ done.post.categories = done.pre.categories
       /\ done.post.filteredTransactions = done.pre.filteredTransactions

\* C13: clearAllTransactions empties the persisted transaction list and preserves
\* the settings (currency, monthlyBudget, categories, usdToRwf, eurToRwf as
\* before); the command resolves to true and the snapshot's transactions and
\* filteredTransactions are empty
C13_ClearKeepsSettings ==
    done.cmd = "clearAllTransactions" =>
        /\ done.result = TRUE
        /\ getTransactions(done.postStore) = <<>>
        /\ getSettings(done.postStore) = getSettings(done.preStore)
        /\ done.post.transactions = <<>>
        /\ done.post.filteredTransactions = <<>>

\* ====================================================================
\* The view commands: filters, pagination, navigation, editing
\* ====================================================================

\* a session whose transactions came from an imported file: importData keeps the
\* transactions of the file as they are, here one without description and category
ImportedSession ==
    importData(EarlierSession,
               ObjText([version |-> "0.9.0",
                        transactions |-> << [id |-> 7, amount |-> 500, date |-> "2025-01-11"] >>]),
               0 - 1, TRUE).store

\* state.js is loaded over the record of a session: loadInitialData() has run to
\* its await
ViewInit ==
    /\ calls = 0
    /\ now = 0
    /\ last = NoCall
    /\ storage \in {EarlierSession, ImportedSession}
    /\ LET by == [cmd |-> "loadInitialData", arg |-> 0, pre |-> initialState, preStore |-> storage]
           c == setState([state |-> initialState, notified |-> <<>>], [isLoading |-> TRUE], storage, by)
       IN  /\ state = c.state
           /\ notified = c.notified
           /\ tasks = <<Task(by, 1, 2, TRUE, getTransactions(storage), getSettings(storage))>>
    /\ done = NoCommand
    /\ subscribers = <<>>
    /\ uiState = initialUiState
    /\ defaults = sharedDefaults

ViewNext ==
    \/ Hop
    \/ loadInitialData_loaded
    \/ setSearchQuery
    \/ setSelectedCategory
    \/ setSortBy
    \/ setCurrentPage
    \/ navigateTo
    \/ startEditingTransaction
    \/ cancelEditingTransaction
    \/ updateTransaction
    \/ updateTransaction_fetch
    \/ updateTransaction_finish

SpecView == ViewInit /\ [][ViewNext]_vars

\* C11: pagination reset: setSearchQuery(text) and setSelectedCategory(cat) leave
\* currentPage = 1 in every reachable controller state, and setSortBy(spec) leaves
\* currentPage equal to its value before the call
C11_PaginationReset ==
    /\ done.cmd \in {"setSearchQuery", "setSelectedCategory"} => done.post.currentPage = 1
    /\ done.cmd = "setSortBy" => done.post.currentPage = done.pre.currentPage

\* C20: the editing state machine: startEditingTransaction(id) leaves isEditing
\* true and currentTransactionId = id; navigateTo(section),
\* cancelEditingTransaction and a successful updateTransaction leave isEditing
\* false and currentTransactionId null; in every reachable state isEditing is true
\* exactly when currentTransactionId is set
C20_EditingStateMachine ==
    /\ state.isEditing <=> state.currentTransactionId # Null
    /\ done.cmd = "startEditingTransaction" =>
          done.post.isEditing /\ done.post.currentTransactionId = done.arg
    /\ (\/ done.cmd \in {"navigateTo", "cancelEditingTransaction"}
        \/ (done.cmd = "updateTransaction" /\ done.result)) =>
          ~done.post.isEditing /\ done.post.currentTransactionId = Null

\* an update of the transaction being edited has been persisted and has completed
C20_Witness ==
    /\ done.cmd = "updateTransaction"
    /\ done.result
    /\ done.ret = TRUE
    /\ done.pre.isEditing
    /\ done.pre.currentTransactionId = done.arg.id
    /\ done.postStore # done.preStore

\* ====================================================================
\* The category commands of the controller
\* ====================================================================
CategoriesNext ==
    \/ Hop
    \/ loadInitialData_loaded
    \/ addCategory
    \/ addCategory_finish
    \/ deleteCategory
    \/ deleteCategory_finish

SpecCategories == Init /\ [][CategoriesNext]_vars

\* C26: when the Store's addCategory or deleteCategory returns false, the
\* controller's command resolves to false and sets the snapshot's error message,
\* and snapshot.categories is as before the command
C26_CategoryFailureReported ==
    (done.cmd \in {"addCategory", "deleteCategory"} /\ done.ret = FALSE) =>
        /\ done.result = FALSE
        /\ done.post.error # "null"
        /\ done.post.categories = done.pre.categories

\* ====================================================================
\* The transaction form (ui.js)
\* ====================================================================

\* the values of the four form fields
FormValues ==
    [description : {"Lunch"}, amount : {"80", "100", "12.50", "abc"},
     category : {"Food"}, date : {"2024-12-20", "2025-01-01", "2025-01-10", "2025-02-01"}]

\* the browser's time zone, as hours ahead of UTC
Zones == {0 - 5, 2}

\* String(number) of an amount
NumberToString(n) ==
    CASE n = 8000 -> "80"
      [] n = 10000 -> "100"
      [] n = 1250 -> "12.5"
      [] OTHER -> "NaN"

\* new Date(date): a date-only string is midnight UTC of that day; the days are
\* counted from 2024-12-01, NaN for a missing or invalid date
DayNumber(date) ==
    CASE date = "2024-12-20" -> 19
      [] date = "2025-01-01" -> 31
      [] date = "2025-01-10" -> 40
      [] date = "2025-01-11" -> 41
      [] date = "2025-01-15" -> 45
      [] date = "2025-02-01" -> 62
      [] OTHER -> NaN

\* the calendar month a day number lies in
MonthOfDay(day) ==
    IF day < 31 THEN "2024-12" ELSE IF day < 62 THEN "2025-01" ELSE "2025-02"

\* `${d.getFullYear()}-${String(d.getMonth() + 1).padStart(2, "0")}` of
\* d = new Date(date): the month of the local day that holds midnight UTC of date
LocalMonth(date, zone) ==
    LET day == DayNumber(date)
    IN  IF day = NaN THEN "NaN-NaN"
        ELSE IF zone < 0 THEN MonthOfDay(day - 1) ELSE MonthOfDay(day)

validateDescription(value) ==
    IF value = "" THEN [isValid |-> FALSE, message |-> "Description is required"]
    ELSE IF trim(value) # value
    THEN [isValid |-> FALSE,
          message |-> "Description cannot have leading/trailing spaces or multiple spaces between words"]
    ELSE [isValid |-> TRUE, message |-> ""]

\* of a number: the form handler passes parseFloat of the field
validateAmount(value) ==
    IF value = Null THEN [isValid |-> FALSE, message |-> "Amount is required"]
    ELSE IF value = NaN THEN [isValid |-> FALSE, message |-> "Please enter a valid number"]
    ELSE IF value <= 0 THEN [isValid |-> FALSE, message |-> "Amount must be greater than zero"]
    ELSE [isValid |-> TRUE, message |-> ""]

\* the names of the model that match /^[A-Za-z]+(?:[ -][A-Za-z]+)*$/
LetterWords == {"Food", "FOOD", "food", "Books", "Transport", "Entertainment", "Fees", "Other", "Rent"}

validateCategory(value) ==
    IF value = "" \/ trim(value) = "" THEN [isValid |-> FALSE, message |-> "Category is required"]
    ELSE IF value \notin LetterWords
    THEN [isValid |-> FALSE,
          message |-> "Category can only contain letters, spaces, and hyphens, and must start and end with a letter"]
    ELSE [isValid |-> TRUE, message |-> ""]

\* allowFuture = false.  today is new Date() with setHours(0, 0, 0, 0): the local
\* midnight of the current day, which is `zone` hours before that day's midnight UTC
validateDate(value, t, zone) ==
    IF value = "" THEN [isValid |-> FALSE, message |-> "Date is required"]
    ELSE IF DayNumber(value) = NaN
    THEN [isValid |-> FALSE, message |-> "Please enter a valid date in YYYY-MM-DD format"]
    ELSE IF DayNumber(value) * 24 > DayNumber(DateOf(t)) * 24 - zone
    THEN [isValid |-> FALSE, message |-> "Future dates are not allowed"]
    ELSE [isValid |-> TRUE, message |-> ""]

\* currentMonthTotal (ui.js 292-304): the amounts of the snapshot's transactions
\* whose local month is `month`, summed in list order; NaN once an amount is missing
RECURSIVE MonthTotal(_, _, _)
MonthTotal(transactions, month, zone) ==
    IF transactions = <<>> THEN 0
    ELSE LET tx == Head(transactions)
             rest == MonthTotal(Tail(transactions), month, zone)
             txMonth == IF Has(tx, "date") THEN LocalMonth(tx.date, zone) ELSE "NaN-NaN"
         IN  IF txMonth # month THEN rest
             ELSE IF AmountOf(tx) \in {NaN, Null} \/ rest = NaN THEN NaN
             ELSE AmountOf(tx) + rest

\* currentState.settings?.monthlyBudget, null for a missing field
monthlyBudgetOf(snapshot) ==
    IF Has(snapshot.settings, "monthlyBudget") THEN snapshot.settings.monthlyBudget ELSE Null

\* the budget check of a new transaction (ui.js 281-325): TRUE when the handler
\* shows "Budget limit exceeded!" and returns
ExceedsBudget(snapshot, transactionData, zone) ==
    LET monthlyBudget == monthlyBudgetOf(snapshot)
        currentMonthTotal == MonthTotal(snapshot.transactions,
                                        LocalMonth(transactionData.date, zone), zone)
    IN  /\ Truthy(monthlyBudget)
        /\ monthlyBudget > 0
        /\ currentMonthTotal # NaN
        /\ currentMonthTotal + transactionData.amount > monthlyBudget

\* the check applied to every submission, edits included
RejectedByBudget_editsToo(ui, snapshot, transactionData, zone) ==
    ExceedsBudget(snapshot, transactionData, zone)

\* if (!uiState.currentTransactionId) { ... return; } (ui.js 281-325)
RejectedByBudget(ui, snapshot, transactionData, zone) ==
    /\ ui.currentTransactionId = Null
    /\ ExceedsBudget(snapshot, transactionData, zone)

\* the ids of the transactions the list shows, each with its edit button
IdsListed(transactions) ==
    {transactions[i].id : i \in {j \in 1..Len(transactions) : Has(transactions[j], "id")}}

\* ---- editTransaction (ui.js 846-883): the edit button of a listed transaction
editTransaction ==
    \E transactionId \in Ids \cup IdsListed(state.transactions) :
        LET by == Command("editTransaction", transactionId)
            found == IndexOfId(state.transactions, transactionId) # 0
            c == IF found
                 THEN setState(Run0, [currentSection |-> "add-transaction", isEditing |-> FALSE,
                                      currentTransactionId |-> Null], storage, by)
                 ELSE Run0
        IN  /\ tasks = <<>>
            /\ calls < MaxCalls
            /\ calls' = calls + 1
            /\ UNCHANGED defaults
            /\ uiState' = IF found THEN [uiState EXCEPT !.currentTransactionId = transactionId]
                          ELSE uiState
            /\ state' = c.state
            /\ notified' = c.notified
            /\ done' = Completed(by, found, found, FALSE, c, storage)
            /\ last' = IF found
                       THEN [op |-> "editTransaction", arg |-> transactionId, ret |-> TRUE,
                             pre |-> storage, at |-> now, accept |-> TRUE]
                       ELSE last
            /\ UNCHANGED <<storage, now, tasks, subscribers>>

\* ---- handleTransactionSubmit (ui.js 214-356), up to its await: validation, the
\* budget check, then state.updateTransaction or state.addTransaction up to their
\* first await.  The handler resumes once the command's promise has resolved.
handleTransactionSubmit ==
    \E form \in FormValues, zone \in Zones, ok \in BOOLEAN :
        LET transactionData == [description |-> form.description, amount |-> parseFloat(form.amount),
                                category |-> form.category, date |-> form.date]
            valid == /\ validateDescription(transactionData.description).isValid
                     /\ validateAmount(transactionData.amount).isValid
                     /\ validateCategory(transactionData.category).isValid
                     /\ validateDate(transactionData.date, now, zone).isValid
            isNew == uiState.currentTransactionId = Null
            by == Command("handleTransactionSubmit",
                          [transactionData |-> transactionData, zone |-> zone, valid |-> valid,
                           isNew |-> isNew, id |-> uiState.currentTransactionId,
                           accept |-> ok])
            res == IF isNew
                   THEN addStoredTransaction(storage,
                            [transactionData EXCEPT !.amount = NumberToString(@)], now, ok)
                   ELSE updateStoredTransaction(storage, uiState.currentTransactionId,
                                                transactionData, now, ok)
            inner == IF isNew THEN Command("addTransaction", transactionData)
                     ELSE Command("updateTransaction",
                                  [id |-> uiState.currentTransactionId, updates |-> transactionData])
            c == setState(Run0, [isLoading |-> TRUE], storage, inner)
        IN  /\ tasks = <<>>
            /\ calls < MaxCalls
            /\ calls' = calls + 1
            /\ IF ~valid \/ RejectedByBudget(uiState, state, transactionData, zone)
               THEN /\ done' = Completed(by, FALSE, FALSE, FALSE, Run0, storage)
                    /\ notified' = <<>>
                    /\ UNCHANGED <<storage, state, tasks>>
               ELSE /\ state' = c.state
                    /\ notified' = c.notified
                    /\ storage' = res.store
                    /\ tasks' = <<Task(inner, 1, 1, res.ret, <<>>, Empty),
                                  Task(by, 1, 3, res.ret, <<>>, Empty)>>
                    /\ UNCHANGED done
            /\ UNCHANGED <<now, last, subscribers, uiState, defaults>>

\* after the await: on success the form is reset and the list is shown
handleTransactionSubmit_saved ==
    LET t == Head(tasks)
        success == done.result
        c == IF success
             THEN setState(Run0, [currentSection |-> "transactions", isEditing |-> FALSE,
                                  currentTransactionId |-> Null], storage, t.by)
             ELSE Run0
    IN  /\ tasks # <<>>
        /\ t.by.cmd = "handleTransactionSubmit"
        /\ t.hops = 1
        /\ done.cmd \in {"addTransaction", "updateTransaction"}
        /\ UNCHANGED defaults
        /\ uiState' = IF success THEN [uiState EXCEPT !.currentTransactionId = Null] ELSE uiState
        /\ state' = c.state
        /\ notified' = c.notified
        /\ tasks' = Tail(tasks)
        /\ done' = Completed(t.by, t.ret, success, FALSE, c, storage)
        /\ UNCHANGED <<storage, now, last, calls, subscribers>>

\* ---- a click on a navigation link (ui.js 104-110): state.navigateTo(sectionId) and
\* nothing else.  last keeps the click that left the form and what uiState then
\* held as the transaction under edit.
navLinkClick ==
    \E sectionId \in Sections :
        LET by == Command("navLinkClick", sectionId)
            c == setState(Run0, [currentSection |-> sectionId, isEditing |-> FALSE,
                                 currentTransactionId |-> Null], storage, by)
            leaves == state.currentSection = "add-transaction" /\ sectionId # "add-transaction"
        IN  /\ tasks = <<>>
            /\ state.currentSection # sectionId
            /\ state' = c.state
            /\ notified' = c.notified
            /\ done' = Completed(by, TRUE, TRUE, FALSE, c, storage)
            /\ last' = IF leaves
                       THEN [op |-> "navLinkClick",
                             arg |-> [sectionId |-> sectionId, editing |-> uiState.currentTransactionId],
                             ret |-> TRUE, pre |-> storage, at |-> now, accept |-> TRUE]
                       ELSE last
            /\ UNCHANGED <<storage, now, calls, tasks, subscribers, uiState, defaults>>

\* a fresh record, or one with a budget of 100.00 and 112.50 spent in January 2025
FormInit ==
    /\ calls = 0
    /\ now \in 0..MaxClock
    /\ last = NoCall
    /\ storage \in {saveData(Absent, defaultData, 0, TRUE).store, EarlierSession, ImportedSession}
    /\ LET by == [cmd |-> "loadInitialData", arg |-> 0, pre |-> initialState, preStore |-> storage]
           c == setState([state |-> initialState, notified |-> <<>>], [isLoading |-> TRUE], storage, by)
       IN  /\ state = c.state
           /\ notified = c.notified
           /\ tasks = <<Task(by, 1, 2, TRUE, getTransactions(storage), getSettings(storage))>>
    /\ done = NoCommand
    /\ subscribers = <<>>
    /\ uiState = initialUiState
    /\ defaults = sharedDefaults

FormNext ==
    \/ Clock
    \/ Hop
    \/ loadInitialData_loaded
    \/ editTransaction
    \/ handleTransactionSubmit
    \/ addTransaction_fetch
    \/ addTransaction_finish
    \/ updateTransaction_fetch
    \/ updateTransaction_finish
    \/ handleTransactionSubmit_saved

SpecForm == FormInit /\ [][FormNext]_vars

\* the transactions of a list dated in a calendar month, and their total
RECURSIVE InMonthTotal(_, _)
InMonthTotal(transactions, month) ==
    IF transactions = <<>> THEN 0
    ELSE (IF MonthOfDay(DayNumber(Head(transactions).date)) = month
          THEN Head(transactions).amount ELSE 0)
         + InMonthTotal(Tail(transactions), month)

\* a valid submission for a new transaction while a budget is set
BudgetedSubmission ==
    /\ done.cmd = "handleTransactionSubmit"
    /\ done.arg.valid
    /\ done.arg.isNew
    /\ Truthy(monthlyBudgetOf(done.pre))

\* C12: when the add form is submitted for a new transaction and a monthly budget
\* is set: if the amounts of the existing transactions of that month plus the new
\* amount exceed the budget, the submission is rejected and the Store's
\* transaction list and the snapshot stay as they are; if they do not, the
\* transaction is added (given that the Store's write is accepted)
C12_BudgetCheck ==
    BudgetedSubmission =>
        LET new == done.arg.transactionData
            total == InMonthTotal(done.pre.transactions, MonthOfDay(DayNumber(new.date))) + new.amount
            before == getTransactions(done.preStore)
            after == getTransactions(done.postStore)
        IN  /\ total > done.pre.settings.monthlyBudget =>
                /\ after = before
                /\ done.post = done.pre
            /\ (total <= done.pre.settings.monthlyBudget /\ done.ret = TRUE) =>
                /\ Len(after) = Len(before) + 1
                /\ Tail(after) = before
                /\ Head(after).amount = new.amount
                /\ Head(after).date = new.date
                /\ Head(after).description = new.description
                /\ Head(after).category = new.category

\* C28: the budget check applies to new transactions only: a form submitted while
\* an existing transaction is being edited is applied to the Store without any
\* budget comparison, also when it takes the month's total over the budget
C28_EditsSkipBudgetCheck ==
    (/\ done.cmd = "handleTransactionSubmit"
     /\ done.arg.valid
     /\ ~done.arg.isNew
     /\ done.arg.accept
     /\ done.arg.id \in IdsListed(getTransactions(done.preStore))) =>
        LET after == getTransactions(done.postStore)
            tx == after[IndexOfId(after, done.arg.id)]
            new == done.arg.transactionData
        IN  /\ done.ret = TRUE
            /\ tx.amount = new.amount
            /\ tx.date = new.date
            /\ tx.description = new.description
            /\ tx.category = new.category

\* the 100.00 of January, under a budget of 100.00 with 112.50 spent that month,
\* has been edited to 80.00: by the check's count 192.50
C28_Witness ==
    /\ done.cmd = "handleTransactionSubmit"
    /\ ~done.arg.isNew
    /\ done.arg.accept
    /\ done.ret = TRUE
    /\ done.pre.settings.monthlyBudget = 10000
    /\ ExceedsBudget(done.pre, done.arg.transactionData, done.arg.zone)
    /\ done.arg.transactionData.amount = 8000
    /\ done.postStore # done.preStore

\* ====================================================================
\* Subscribers (state.js 428-461)
\* ====================================================================

\* the callbacks a client subscribes: render only displays the snapshot; once
\* calls the unsubscribe function it was given when it is first notified; redirect
\* calls navigateTo("transactions") when the snapshot shows the add-transaction form
Callbacks == {"render", "once", "redirect"}

\* Array.prototype.indexOf, counted from 1: 0 when x is not in the list
indexOf(list, x) ==
    IF Includes(list, x)
    THEN CHOOSE i \in 1..Len(list) : list[i] = x /\ \A j \in 1..(i - 1) : list[j] # x
    ELSE 0

\* the function subscribe(callback) returns (439-444): indexOf, then splice
Unsubscribed(list, callback) ==
    LET index == indexOf(list, callback)
    IN  IF index = 0 THEN list
        ELSE SubSeq(list, 1, index - 1) \o SubSeq(list, index + 1, Len(list))

\* one entry of the record of a step: a setState, a callback called with a
\* snapshot, or a call of an unsubscribe function; open = the notifications in
\* progress, subs = the array of subscribers at that moment
Event(ev, run, to) ==
    [ev |-> ev, cycle |-> IF run.open = <<>> THEN 0 ELSE run.open[Len(run.open)],
     open |-> run.open, to |-> to, snap |-> run.state, subs |-> run.subscribers]

\* the module's variables while a command runs
Running == [state |-> state, subscribers |-> subscribers, count |-> 0, open |-> <<>>, log |-> <<>>]

\* setState (451-454) with notifySubscribers (459-461).  forEach fixes the number
\* of indices when it starts and skips an index the array no longer has; the
\* callback is passed the value the variable state has when it is called.
RECURSIVE setState_notifySubscribers(_, _), forEach(_, _, _), Invoke(_, _)
setState_notifySubscribers(run, updates) ==
    LET cycle == run.count + 1
        assigned == [run EXCEPT !.state = Spread(run.state, updates), !.count = cycle]
        begun == [assigned EXCEPT !.log = Append(@, [Event("setState", assigned, "") EXCEPT !.cycle = cycle]),
                                  !.open = Append(@, cycle)]
        ended == forEach(begun, 1, Len(begun.subscribers))
    IN  [ended EXCEPT !.open = run.open]

forEach(run, k, len) ==
    IF k > len THEN run
    ELSE IF k > Len(run.subscribers) THEN forEach(run, k + 1, len)
    ELSE LET callback == run.subscribers[k]
             called == [run EXCEPT !.log = Append(@, Event("call", run, callback))]
         IN  forEach(Invoke(callback, called), k + 1, len)

Invoke(callback, run) ==
    CASE callback = "once" ->
             [run EXCEPT !.subscribers = Unsubscribed(@, "once"),
                         !.log = Append(@, Event("unsubscribe", run, "once"))]
      [] callback = "redirect" /\ run.state.currentSection = "add-transaction" ->
             setState_notifySubscribers(run, [currentSection |-> "transactions", isEditing |-> FALSE,
                                              currentTransactionId |-> Null])
      [] OTHER -> run

\* ---- subscribe(callback) (435-437), for a callback not subscribed at present
subscribe ==
    \E callback \in Callbacks :
        /\ ~Includes(subscribers, callback)
        /\ subscribers' = Append(subscribers, callback)
        /\ notified' = <<>>
        /\ UNCHANGED <<storage, now, calls, last, state, tasks, done, uiState, defaults>>

\* ---- the function subscribe returned, called between two commands
unsubscribe ==
    \E callback \in Callbacks :
        /\ subscribers' = Unsubscribed(subscribers, callback)
        /\ notified' = << Event("unsubscribe", Running, callback) >>
        /\ UNCHANGED <<storage, now, calls, last, state, tasks, done, uiState, defaults>>

\* a command that is one setState, with callbacks subscribed
Notify(by, updates) ==
    LET run == setState_notifySubscribers(Running, updates)
    IN  /\ calls < MaxCalls
        /\ calls' = calls + 1
        /\ state' = run.state
        /\ subscribers' = run.subscribers
        /\ notified' = run.log
        /\ done' = Completed(by, TRUE, TRUE, FALSE, run, storage)
        /\ UNCHANGED <<storage, now, last, tasks, uiState, defaults>>

navigateTo_notify ==
    \E sectionId \in Sections :
        Notify(Command("navigateTo", sectionId),
               [currentSection |-> sectionId, isEditing |-> FALSE, currentTransactionId |-> Null])

setCurrentPage_notify ==
    \E page \in Pages :
        Notify(Command("setCurrentPage", page), [currentPage |-> page])

\* the controller once loadInitialData has completed over a fresh record
SubscribersInit ==
    /\ calls = 0
    /\ now = 0
    /\ last = NoCall
    /\ storage = saveData(Absent, defaultData, 0, TRUE).store
    /\ state = Spread(initialState, [settings |-> getSettings(storage),
                                     categories |-> getStoredCategories(storage)])
    /\ tasks = <<>>
    /\ notified = <<>>
    /\ done = NoCommand
    /\ subscribers = <<>>
    /\ uiState = initialUiState
    /\ defaults = sharedDefaults

SubscribersNext ==
    \/ subscribe
    \/ unsubscribe
    \/ navigateTo_notify
    \/ setCurrentPage_notify

SpecSubscribers == SubscribersInit /\ [][SubscribersNext]_vars

\* C18: a command issued from inside a subscriber callback is processed only
\* after the notification in progress has finished: no setState begins while
\* subscribers are still being called for an earlier change
C18_ReentrantCommandsDeferred ==
    \A i \in 1..Len(notified) :
        notified[i].ev = "setState" => notified[i].open = <<>>

\* C19: on every state change every callback subscribed at that moment and not
\* unsubscribed is called with the new snapshot during that change's
\* notification, also when another callback unsubscribes itself meanwhile; and
\* a callback that is no longer subscribed is not called for the change
C19_EverySubscriberNotified ==
    \A i \in 1..Len(notified) :
        notified[i].ev = "setState" =>
            LET e == notified[i]
            IN  /\ \A k \in 1..Len(e.subs) :
                      (\A j \in 1..Len(notified) :
                          ~(notified[j].ev = "unsubscribe" /\ notified[j].to = e.subs[k]))
                      => \E j \in (i + 1)..Len(notified) :
                            /\ notified[j].ev = "call"
                            /\ notified[j].cycle = e.cycle
                            /\ notified[j].to = e.subs[k]
                            /\ notified[j].snap = e.snap
                /\ \A j \in 1..Len(notified) :
                      (notified[j].ev = "call" /\ notified[j].cycle = e.cycle)
                      => Includes(e.subs, notified[j].to)

\* ====================================================================
\* searchTransactions as a function of its arguments
\* ====================================================================
MaxListLen == 2

SearchTransactions ==
    { [id |-> 1, description |-> "Lunch", amount |-> 10000, category |-> "Food", date |-> "2025-01-10"],
      [id |-> 2, description |-> "Bus", amount |-> 8000, category |-> "Transport", date |-> "2025-01-12"],
      [id |-> 3, description |-> "lunch", amount |-> 10000, category |-> "food", date |-> "2025-01-10"],
      [id |-> 7, amount |-> 500, date |-> "2025-01-11"] }
SearchLists == UNION { [1..n -> SearchTransactions] : n \in 0..MaxListLen }
SearchQueries == {"", "lunch", "(", "[a-", LongQuery}
SearchLimits == {0, 1}
\* the sort specifications: a missing suffix, an unknown field
SortSpecs == {"date-desc", "date-asc", "date", "amount-asc", "amount-desc",
              "category-asc", "description-desc", "bogus-asc"}

SearchInit ==
    /\ state = initialState
    /\ tasks = <<>>
    /\ notified = <<>>
    /\ done = NoCommand
    /\ subscribers = <<>>
    /\ uiState = initialUiState
    /\ defaults = sharedDefaults
    /\ storage = Absent
    /\ now = 0
    /\ calls = 0
    /\ \E transactions \in SearchLists, query \in SearchQueries, category \in CategoryFilters,
          sortBy \in SortBys, limit \in SearchLimits :
          last = [op |-> "arguments",
                  arg |-> [transactions |-> transactions, query |-> query, category |-> category,
                           sortBy |-> sortBy, limit |-> limit],
                  ret |-> Thrown, pre |-> Absent, at |-> 0, accept |-> TRUE]

Search ==
    /\ last.op = "arguments"
    /\ last' = [last EXCEPT !.op = "searchTransactions",
                            !.ret = searchTransactions(last.arg.transactions, last.arg.query,
                                                       last.arg.category, last.arg.sortBy, last.arg.limit)]
    /\ UNCHANGED <<storage, now, calls, state, tasks, notified, done, subscribers, uiState, defaults>>

\* sortTransactions called on its own
Sort ==
    /\ last.op = "arguments"
    /\ \E sortBy \in SortSpecs :
          last' = [last EXCEPT !.op = "sortTransactions", !.arg.sortBy = sortBy,
                               !.ret = sortTransactions(last.arg.transactions, sortBy)]
    /\ UNCHANGED <<storage, now, calls, state, tasks, notified, done, subscribers, uiState, defaults>>

SearchNext ==
    \/ Search
    \/ Sort

SpecSearch == SearchInit /\ [][SearchNext]_vars

\* C10: search fails closed: for every transaction list, category, sortBy and limit,
\* searchTransactions with a non-empty query that fails validateSearchPattern
\* returns the empty list
C10_SearchFailsClosed ==
    (/\ last.op = "searchTransactions"
     /\ last.arg.query # ""
     /\ ~validateSearchPattern(last.arg.query).isValid)
    => (~last.ret.threw /\ last.ret.value = <<>>)

\* the key a sort specification orders by: day number, amount, or the place of
\* the lower-cased text; 0 - 1 for a field the transaction does not have
SortKey(tx, sortBy) ==
    LET field == SortField(sortBy)
        name == IF field \in {"date", "amount", "category"} THEN field ELSE "description"
    IN  IF ~Has(tx, name) THEN 0 - 1
        ELSE CASE field = "date" -> DateKey(tx)
               [] field = "amount" -> tx.amount
               [] OTHER -> StrRank(toLowerCase(tx[name]))

WithKey(list, key, sortBy) ==
    LET Same(tx) == SortKey(tx, sortBy) = key IN SelectSeq(list, Same)

\* C21: sortTransactions(list, spec) returns a permutation of list ordered by the
\* field of spec (ascending for -asc, descending otherwise, an unknown field
\* sorting by description, texts compared without regard to case), in which
\* transactions with equal keys keep their input order
C21_SortStableAndOrdered ==
    last.op = "sortTransactions" =>
        LET list == last.arg.transactions
            sortBy == last.arg.sortBy
            out == last.ret.value
            ascending == sortBy \in {"date-asc", "amount-asc", "category-asc", "bogus-asc"}
        IN  /\ ~last.ret.threw
            /\ Len(out) = Len(list)
            /\ \A i, j \in 1..Len(out) :
                  i < j => IF ascending THEN SortKey(out[i], sortBy) <= SortKey(out[j], sortBy)
                           ELSE SortKey(out[i], sortBy) >= SortKey(out[j], sortBy)
            /\ \A i \in 1..Len(list) :
                  WithKey(out, SortKey(list[i], sortBy), sortBy)
                      = WithKey(list, SortKey(list[i], sortBy), sortBy)

\* the transactions of list that the category filter and the query select, in
\* input order
Selected(list, query, category) ==
    LET Text(tx, field) == IF Has(tx, field) THEN tx[field] ELSE "undefined"
        Keep(tx) ==
            /\ category = "" \/ (Has(tx, "category") /\ toLowerCase(tx.category) = toLowerCase(category))
            /\ query = "" \/ RegexTest(query, Text(tx, "description"))
                          \/ RegexTest(query, Text(tx, "category"))
    IN  SelectSeq(list, Keep)

Occurrences(list, tx) == Cardinality({i \in 1..Len(list) : list[i] = tx})

\* C33: with a valid or empty query and limit 0, searchTransactions returns exactly
\* the input transactions whose category equals the filter ignoring case (all when
\* the filter is empty) and whose description or category matches the query
\* ignoring case (all when the query is empty), none dropped, added or duplicated;
\* with limit n > 0 it returns the first n of that sorted result
C33_SearchSelectsExactly ==
    (last.op = "searchTransactions" /\ validateSearchPattern(last.arg.query).isValid) =>
        LET a == last.arg
            selected == Selected(a.transactions, a.query, a.category)
            sorted == sortTransactions(selected, a.sortBy)
            out == last.ret.value
        IN  /\ ~last.ret.threw
            /\ a.limit = 0 => \A tx \in SearchTransactions :
                                 Occurrences(out, tx) = Occurrences(selected, tx)
            /\ a.limit > 0 =>
                  /\ ~sorted.threw
                  /\ out = SubSeq(sorted.value, 1,
                                  IF a.limit < Len(sorted.value) THEN a.limit ELSE Len(sorted.value))

\* ====================================================================
\* convertCurrency as a function of its arguments
\* ====================================================================
ConvertAmounts == {0, 1, 50, 100, 1250, 8000, 10000, 0 - 500}
Currencies == {"RWF", "USD", "EUR"}

\* a record whose rate table prices the dollar at 0.50 RWF and the euro at 1 RWF
CheapDollar ==
    updateStoredSettings(Absent, [usdToRwf |-> 50, eurToRwf |-> 100], 0, TRUE).store

ConvertInit ==
    /\ state = initialState
    /\ tasks = <<>>
    /\ notified = <<>>
    /\ done = NoCommand
    /\ subscribers = <<>>
    /\ uiState = initialUiState
    /\ defaults = sharedDefaults
    /\ storage \in {saveData(Absent, defaultData, 0, TRUE).store, CheapDollar}
    /\ now = 0
    /\ calls = 0
    /\ \E amount \in ConvertAmounts, fromCurrency \in Currencies, toCurrency \in Currencies :
          last = [op |-> "arguments",
                  arg |-> [amount |-> amount, fromCurrency |-> fromCurrency, toCurrency |-> toCurrency],
                  ret |-> NaN, pre |-> Absent, at |-> 0, accept |-> TRUE]

Convert ==
    /\ last.op = "arguments"
    /\ last' = [last EXCEPT !.op = "convertCurrency",
                            !.ret = convertCurrency(storage, last.arg.amount,
                                                    last.arg.fromCurrency, last.arg.toCurrency)]
    /\ UNCHANGED <<storage, now, calls, state, tasks, notified, done, subscribers, uiState, defaults>>

\* the result converted back
ConvertBack ==
    /\ last.op = "convertCurrency"
    /\ last' = [last EXCEPT !.op = "convertCurrency back",
                            !.pre = last.ret,
                            !.ret = convertCurrency(storage, last.ret,
                                                    last.arg.toCurrency, last.arg.fromCurrency)]
    /\ UNCHANGED <<storage, now, calls, state, tasks, notified, done, subscribers, uiState, defaults>>

ConvertNext ==
    \/ Convert
    \/ ConvertBack

SpecConvert == ConvertInit /\ [][ConvertNext]_vars

StatTransactions ==
    { [id |-> 1, description |-> "Lunch", amount |-> 500, category |-> "Food", date |-> "2025-01-10"],
      [id |-> 2, description |-> "Lunch", amount |-> 0 - 500, category |-> "Food", date |-> "2025-01-10"],
      [id |-> 3, description |-> "Novel", amount |-> 500, category |-> "Books", date |-> "2025-01-11"],
      [id |-> 4, description |-> "Novel", amount |-> 1250, category |-> "Books", date |-> "2025-01-11"],
      [id |-> 5, description |-> "Bus", amount |-> 0 - 1000, category |-> "Transport", date |-> "2025-01-12"],
      [id |-> 7, amount |-> 500, date |-> "2025-01-11"] }
StatLists == UNION { [1..n -> StatTransactions] : n \in 0..MaxListLen }

\* parseFloat(transaction.amount || 0)
AmountOrZero(transaction) ==
    IF Has(transaction, "amount") /\ Truthy(transaction.amount) THEN transaction.amount ELSE 0

\* transaction.category || 'Uncategorized'
CategoryOrUncategorized(transaction) ==
    IF Has(transaction, "category") /\ transaction.category # "" THEN transaction.category
    ELSE "Uncategorized"

\* calculateTotal (135-143): reduce from 0
RECURSIVE calculateTotal(_)
calculateTotal(transactions) ==
    IF transactions = <<>> THEN 0
    ELSE calculateTotal(SubSeq(transactions, 1, Len(transactions) - 1))
         + AmountOrZero(transactions[Len(transactions)])

\* the forEach of getCategorySummary (164-171): totals is the object's entries in
\* the order the keys were created
RECURSIVE Summed(_)
Summed(transactions) ==
    IF transactions = <<>> THEN [totals |-> <<>>, totalAmount |-> 0]
    ELSE LET summary == Summed(SubSeq(transactions, 1, Len(transactions) - 1))
             transaction == transactions[Len(transactions)]
             amount == AmountOrZero(transaction)
             category == CategoryOrUncategorized(transaction)
             known == \E i \in 1..Len(summary.totals) : summary.totals[i].category = category
         IN  [totals |-> IF known
                         THEN [i \in 1..Len(summary.totals) |->
                                  IF summary.totals[i].category = category
                                  THEN [category |-> category, amount |-> summary.totals[i].amount + amount]
                                  ELSE summary.totals[i]]
                         ELSE Append(summary.totals, [category |-> category, amount |-> amount]),
              totalAmount |-> summary.totalAmount + amount]

\* a summary that computes the percentages whenever the total is not zero
getCategorySummary_nonZero(transactions) ==
    LET summary == Summed(transactions)
    IN  [totals |-> summary.totals,
         percentages |-> IF summary.totalAmount # 0
                         THEN [i \in 1..Len(summary.totals) |->
                                  [category |-> summary.totals[i].category,
                                   percent |-> [num |-> summary.totals[i].amount * 100,
                                                den |-> summary.totalAmount]]]
                         ELSE <<>>,
         totalAmount |-> summary.totalAmount]

\* getCategorySummary (150-182); a percentage is the fraction num / den
getCategorySummary(transactions) ==
    LET summary == Summed(transactions)
    IN  [totals |-> summary.totals,
         percentages |-> IF summary.totalAmount > 0
                         THEN [i \in 1..Len(summary.totals) |->
                                  [category |-> summary.totals[i].category,
                                   percent |-> [num |-> summary.totals[i].amount * 100,
                                                den |-> summary.totalAmount]]]
                         ELSE <<>>,
         totalAmount |-> summary.totalAmount]

\* the forEach of getTopCategory (284-289) over the first k entries
RECURSIVE TopOf(_, _)
TopOf(entries, k) ==
    IF k = 0 THEN [category |-> "null", amount |-> 0]
    ELSE LET top == TopOf(entries, k - 1)
         IN  IF entries[k].amount > top.amount
             THEN [category |-> entries[k].category, amount |-> entries[k].amount]
             ELSE top

\* getTopCategory (275-295)
getTopCategory(transactions) ==
    IF transactions = <<>> THEN [category |-> "null", amount |-> 0]
    ELSE LET categorySummary == getCategorySummary(transactions)
         IN  TopOf(categorySummary.totals, Len(categorySummary.totals))

StatsInit ==
    /\ state = initialState
    /\ tasks = <<>>
    /\ notified = <<>>
    /\ done = NoCommand
    /\ subscribers = <<>>
    /\ uiState = initialUiState
    /\ defaults = sharedDefaults
    /\ storage = Absent
    /\ now = 0
    /\ calls = 0
    /\ \E transactions \in StatLists :
          last = [op |-> "arguments", arg |-> transactions,
                  ret |-> 0, pre |-> Absent, at |-> 0, accept |-> TRUE]

Total ==
    /\ last.op = "arguments"
    /\ last' = [last EXCEPT !.op = "calculateTotal", !.ret = calculateTotal(last.arg)]
    /\ UNCHANGED <<storage, now, calls, state, tasks, notified, done, subscribers, uiState, defaults>>

CategorySummary ==
    /\ last.op = "arguments"
    /\ last' = [last EXCEPT !.op = "getCategorySummary", !.ret = getCategorySummary(last.arg)]
    /\ UNCHANGED <<storage, now, calls, state, tasks, notified, done, subscribers, uiState, defaults>>

TopCategory ==
    /\ last.op = "arguments"
    /\ last' = [last EXCEPT !.op = "getTopCategory", !.ret = getTopCategory(last.arg)]
    /\ UNCHANGED <<storage, now, calls, state, tasks, notified, done, subscribers, uiState, defaults>>

StatsNext ==
    \/ Total
    \/ CategorySummary
    \/ TopCategory

SpecStats == StatsInit /\ [][StatsNext]_vars

\* the categories of a list in the order of their first transaction, and the
\* amounts of one category added up
CategoriesOf(list) == Dedup([i \in 1..Len(list) |-> CategoryOrUncategorized(list[i])])
RECURSIVE SumOfCategory(_, _)
SumOfCategory(list, c) ==
    IF list = <<>> THEN 0
    ELSE (IF CategoryOrUncategorized(Head(list)) = c /\ Has(Head(list), "amount")
          THEN Head(list).amount ELSE 0)
         + SumOfCategory(Tail(list), c)

\* C23: getTopCategory returns, for every non-empty list, the category with the
\* greatest summed amount and that sum, the first-encountered one on a tie, also
\* when every sum is zero or negative; for the empty list {category: null, amount: 0}
C23_TopCategory ==
    last.op = "getTopCategory" =>
        LET cats == CategoriesOf(last.arg)
        IN  IF last.arg = <<>> THEN last.ret = [category |-> "null", amount |-> 0]
            ELSE \E k \in 1..Len(cats) :
                    /\ last.ret = [category |-> cats[k], amount |-> SumOfCategory(last.arg, cats[k])]
                    /\ \A j \in 1..Len(cats) :
                          SumOfCategory(last.arg, cats[j]) <= SumOfCategory(last.arg, cats[k])
                    /\ \A j \in 1..(k - 1) :
                          SumOfCategory(last.arg, cats[j]) < SumOfCategory(last.arg, cats[k])

PersistedVersions == {"0.9.0", "1.0.0"}
PersistedSettings ==
    { Empty, [currency |-> "EUR"], [monthlyBudget |-> 5000, categories |-> <<"Rent">>],
      [currency |-> "USD", monthlyBudget |-> Null, categories |-> <<>>,
       usdToRwf |-> 150000, eurToRwf |-> 170000] }
PersistedLists ==
    { NotAList, <<>>, << [id |-> 7, amount |-> 500, date |-> "2025-01-11"] >> }

\* an object made of the chosen fields: "" or {} stands for a field left out
PersistedObject(version, hasSettings, settings, hasTransactions, transactions) ==
    Spread(Spread(IF version = "" THEN Empty ELSE [version |-> version],
                  IF hasSettings THEN [settings |-> settings] ELSE Empty),
           IF hasTransactions THEN [transactions |-> transactions] ELSE Empty)

StoreContents ==
    {Absent, Doc("garbage"), Doc("null"), Doc("scalar"), Doc("array")}
    \cup { ObjText(PersistedObject(v, hs, s, ht, t)) :
              v \in PersistedVersions \cup {""}, hs \in BOOLEAN, s \in PersistedSettings,
              ht \in BOOLEAN, t \in PersistedLists }

LoadInit ==
    /\ state = initialState
    /\ tasks = <<>>
    /\ notified = <<>>
    /\ done = NoCommand
    /\ subscribers = <<>>
    /\ uiState = initialUiState
    /\ defaults = sharedDefaults
    /\ storage \in StoreContents
    /\ now = 0
    /\ calls = 0
    /\ last = NoCall

Load ==
    /\ last.op = "init"
    /\ last' = [last EXCEPT !.op = "loadData", !.pre = storage, !.ret = loadData(storage)]
    /\ UNCHANGED <<storage, now, calls, state, tasks, notified, done, subscribers, uiState, defaults>>

LoadNext ==
    \/ Load

SpecLoad == LoadInit /\ [][LoadNext]_vars

SettingsFields == {"currency", "monthlyBudget", "categories", "usdToRwf", "eurToRwf"}

\* C25: loadData never fails: for every content of the backing store it returns a
\* record with a version, a settings object with all five settings fields and a
\* list-shaped transactions value; persisted fields win over defaults, missing
\* fields take the default, and a read or parse error yields the default record
C25_LoadNeverFails ==
    last.op = "loadData" =>
        LET data == last.ret
        IN  /\ Has(data, "version")
            /\ SettingsFields \subseteq DOMAIN data.settings
            /\ IsArray(data.transactions)
            /\ IF storage.k = "object"
               THEN LET parsed == storage.v
                        settings == IF Has(parsed, "settings") THEN parsed.settings ELSE Empty
                    IN  /\ data.version = IF Has(parsed, "version") THEN parsed.version ELSE "1.0.0"
                        /\ \A f \in SettingsFields :
                              data.settings[f] = IF Has(settings, f) THEN settings[f]
                                                 ELSE defaultSettings[f]
                        /\ data.transactions =
                              IF Has(parsed, "transactions") /\ parsed.transactions # NotAList
                              THEN parsed.transactions ELSE <<>>
               ELSE data = defaultData

\* a record with partial settings and a transactions value that is not a list
\* has been loaded
C25_Witness ==
    /\ last.op = "loadData"
    /\ storage.k = "object"
    /\ Has(storage.v, "settings")
    /\ storage.v.settings = [currency |-> "EUR"]
    /\ Has(storage.v, "transactions")
    /\ storage.v.transactions = NotAList
    /\ last.ret.settings.currency = "EUR"
    /\ last.ret.settings.usdToRwf = USD_TO_RWF
    /\ last.ret.transactions = <<>>

\* C27: in every reachable Store state, after any updateSettings(patch) and
\* importData(text) calls, the persisted settings.currency is one of RWF, USD, EUR
C27_CurrencyInFixedSet ==
    getSettings(storage).currency \in {getAvailableCurrencies[i] : i \in 1..Len(getAvailableCurrencies)}

\* the effect of a successful Store addTransaction(draft), apart from the amount
AddedAtHead ==
    LET before == getTransactions(last.pre)
        after == getTransactions(storage)
        draft == last.arg
    IN  /\ Len(after) = Len(before) + 1
        /\ after[1].id = last.at
        /\ after[1].createdAt = after[1].updatedAt
        /\ after[1].date = (IF Has(draft, "date") THEN draft.date ELSE DateOf(last.at))
        /\ \A i \in 1..Len(before) : after[i + 1] = before[i]
        /\ getSettings(storage) = getSettings(last.pre)

\* C29: a successful Store addTransaction(draft) grows the list by exactly one; the
\* new transaction is at the head of the persisted list with an id assigned by the
\* Store (the draft's id ignored), a numeric amount, createdAt equal to updatedAt and
\* the draft's date or today; the transactions stored before follow it unchanged
\* and in their order, and the settings are unchanged
C29_AddTransactionEffect ==
    (last.op = "addTransaction" /\ last.ret = TRUE) =>
        /\ AddedAtHead
        /\ IsNumber(getTransactions(storage)[1].amount)

\* filteredTransactions of a snapshot is the search applied to that snapshot
ViewDerived(snapshot) ==
    LET f == searchTransactions(snapshot.transactions, snapshot.searchQuery,
                                snapshot.selectedCategory, snapshot.sortBy, 0)
    IN  /\ ~f.threw
        /\ snapshot.filteredTransactions = f.value

InitialLoadDone == \A i \in 1..Len(tasks) : tasks[i].by.cmd # "loadInitialData"

\* C30: after the initial load, in every snapshot delivered to a subscriber and in
\* every state getState returns, filteredTransactions equals
\* searchTransactions(transactions, {query: searchQuery, category: selectedCategory,
\* sortBy}) of the same snapshot, whatever commands ran and however they interleaved
C30_ViewDerived ==
    InitialLoadDone =>
        /\ ViewDerived(state)
        /\ \A i \in 1..Len(notified) : ViewDerived(notified[i].snap)

\* a search query was set between the call of addTransaction and its last step,
\* and the view delivered by that step shows some but not all transactions
C30_Witness ==
    /\ InitialLoadDone
    /\ done.cmd = "addTransaction"
    /\ done.pre.searchQuery = ""
    /\ state.searchQuery = "lunch"
    /\ notified # <<>>
    /\ notified[Len(notified)].snap = state
    /\ state.filteredTransactions # <<>>
    /\ Len(state.filteredTransactions) < Len(state.transactions)

\* ====================================================================
\* The transaction commands of the controller, interleaved
\* ====================================================================
TransactionsNext ==
    \/ Clock
    \/ Hop
    \/ loadInitialData_loaded
    \/ addTransaction
    \/ addTransaction_fetch
    \/ addTransaction_finish
    \/ updateTransaction
    \/ updateTransaction_fetch
    \/ updateTransaction_finish
    \/ deleteTransaction
    \/ deleteTransaction_fetch
    \/ deleteTransaction_finish
    \/ importAllData
    \/ importAllData_loaded
    \/ clearAllTransactions
    \/ setSearchQuery
    \/ setSelectedCategory
    \/ setSortBy

SpecTransactions == Init /\ [][TransactionsNext]_vars

\* C31: once every issued addTransaction, updateTransaction, deleteTransaction,
\* clearAllTransactions and importAllData command has completed, the snapshot's
\* transactions are the Store's persisted list, also when the commands were started
\* without awaiting one another
C31_SnapshotMatchesStore ==
    tasks = <<>> => state.transactions = getTransactions(storage)

\* ====================================================================
\* The form and the navigation links (ui.js)
\* ====================================================================
EditNext ==
    \/ Clock
    \/ Hop
    \/ loadInitialData_loaded
    \/ editTransaction
    \/ navLinkClick
    \/ handleTransactionSubmit
    \/ addTransaction_fetch
    \/ addTransaction_finish
    \/ updateTransaction_fetch
    \/ updateTransaction_finish
    \/ handleTransactionSubmit_saved

SpecEdit == FormInit /\ [][EditNext]_vars

\* the form was left by a navigation link while transaction id was under edit, no
\* edit button was clicked since, and a valid submission of the form, made while
\* the form was showing again, has completed
SubmittedAfterLeaving ==
    /\ last.op = "navLinkClick"
    /\ last.arg.editing # Null
    /\ done.cmd = "handleTransactionSubmit"
    /\ done.pre.currentSection = "add-transaction"
    /\ done.arg.valid

\* C32: navigating away from the edit form cancels the edit: after editTransaction(id)
\* opened the form and the user navigated to another section, a later submission
\* of the form adds a new transaction and does not update transaction id
C32_NavigationCancelsEdit ==
    SubmittedAfterLeaving => done.arg.isNew

\* an updateSettings whose patch leaves the currency as it is
NoCurrencyChange ==
    /\ last.op = "updateSettings"
    /\ ~Has(last.arg, "currency") \/ last.arg.currency = getSettings(last.pre).currency

\* C34: Store updateSettings(patch) whose patch has no currency field, or whose
\* currency is the current one, leaves every transaction unchanged (all fields,
\* order and count) and changes only the settings fields the patch names
C34_SettingsFrame ==
    NoCurrencyChange =>
        /\ getTransactions(storage) = getTransactions(last.pre)
        /\ \A f \in SettingsFields \ DOMAIN last.arg :
              getSettings(storage)[f] = getSettings(last.pre)[f]
        /\ last.accept => \A f \in DOMAIN last.arg : getSettings(storage)[f] = last.arg[f]

\* a budget was set, with the currency and the transactions of an earlier session
\* in place
C34_Witness ==
    /\ NoCurrencyChange
    /\ last.accept
    /\ DOMAIN last.arg = {"categories"}
    /\ getTransactions(last.pre) # <<>>
    /\ getSettings(last.pre).monthlyBudget = 10000
    /\ getSettings(storage).categories = last.arg.categories
    /\ getSettings(storage) # getSettings(last.pre)

\* an accepted updateSettings that changes the currency and carries a budget
CurrencyAndBudgetChange ==
    /\ last.op = "updateSettings"
    /\ last.accept
    /\ Has(last.arg, "currency")
    /\ last.arg.currency # getSettings(last.pre).currency
    /\ Has(last.arg, "monthlyBudget")

\* C35: when Store updateSettings(patch) changes the currency and patch carries a
\* monthlyBudget, the budget persisted afterwards is the patch's value, not a
\* converted one: the patch is merged after the old budget was converted
C35_PatchBudgetWins ==
    CurrencyAndBudgetChange => getSettings(storage).monthlyBudget = last.arg.monthlyBudget

\* the budget of 100.00 USD gave way to the patch's 50.00 with the change to RWF
C35_Witness ==
    /\ CurrencyAndBudgetChange
    /\ getSettings(last.pre).currency = "USD"
    /\ getSettings(last.pre).monthlyBudget = 10000
    /\ last.arg.currency = "RWF"
    /\ getSettings(storage).currency = "RWF"
    /\ getSettings(storage).monthlyBudget = 5000

\* the calls of callback recorded in the step that has just ended
CallsOf(callback) ==
    {i \in 1..Len(notified) : notified[i].ev = "call" /\ notified[i].to = callback}

\* C36: whenever no command and no notification is in progress, the snapshot last
\* delivered to each subscribed callback is the snapshot getState() returns, also
\* when a subscriber issued commands during a notification: after every step
\* that changed the state, each callback subscribed before it and still
\* subscribed has been called, the last time with the current snapshot
C36_SubscribersUpToDate ==
    (notified # <<>> /\ notified[1].ev = "setState") =>
        \A callback \in Callbacks :
            (Includes(notified[1].subs, callback) /\ Includes(subscribers, callback)) =>
                \E i \in CallsOf(callback) :
                    /\ notified[i].snap = state
                    /\ \A j \in CallsOf(callback) : j <= i

\* ====================================================================
\* Pagination of the transaction list (ui.js 541-636, state.js 675-677)
\* ====================================================================
\* Math.ceil(transactions.length / itemsPerPage)
totalPages(snapshot) ==
    (Len(snapshot.filteredTransactions) + snapshot.itemsPerPage - 1) \div snapshot.itemsPerPage

\* a record whose transactions fill one page and begin a second
TwoPages ==
    LET transactions ==
            [i \in 1..(initialState.itemsPerPage + 1) |->
                [id |-> IF i = 1 THEN 7 ELSE 0 - i, description |-> "Lunch", amount |-> 500,
                 category |-> "Food", date |-> "2025-01-10", createdAt |-> 0 - i, updatedAt |-> 0 - i]]
    IN  saveData(Absent, [defaultData EXCEPT !.transactions = transactions], 0 - 1, TRUE).store

PagesInit ==
    /\ calls = 0
    /\ now = 0
    /\ last = NoCall
    /\ storage = TwoPages
    /\ LET by == [cmd |-> "loadInitialData", arg |-> 0, pre |-> initialState, preStore |-> storage]
           c == setState([state |-> initialState, notified |-> <<>>], [isLoading |-> TRUE], storage, by)
       IN  /\ state = c.state
           /\ notified = c.notified
           /\ tasks = <<Task(by, 1, 2, TRUE, getTransactions(storage), getSettings(storage))>>
    /\ done = NoCommand
    /\ subscribers = <<>>
    /\ uiState = initialUiState
    /\ defaults = sharedDefaults

\* the Previous and Next buttons (ui.js 607-634): shown when there is more than one
\* page, Previous disabled on page 1 and Next on the last page
pagerClick ==
    \E page \in {state.currentPage - 1, state.currentPage + 1} :
        /\ totalPages(state) > 1
        /\ page = state.currentPage - 1 => state.currentPage # 1
        /\ page = state.currentPage + 1 => state.currentPage # totalPages(state)
        /\ SetFields(Command("setCurrentPage", page), [currentPage |-> page])

PagesNext ==
    \/ Clock
    \/ Hop
    \/ loadInitialData_loaded
    \/ pagerClick
    \/ setSearchQuery
    \/ setSelectedCategory
    \/ deleteTransaction
    \/ deleteTransaction_fetch
    \/ deleteTransaction_finish

SpecPages == PagesInit /\ [][PagesNext]_vars

\* C37: after deleteTransaction, clearAllTransactions, importAllData or any other
\* command that shrinks filteredTransactions, currentPage still designates an
\* existing page: 1 <= currentPage <= max(1, ceil(|filteredTransactions| / itemsPerPage))
C37_PageExists ==
    /\ 1 <= state.currentPage
    /\ state.currentPage <= (IF totalPages(state) > 1 THEN totalPages(state) ELSE 1)

\* ====================================================================
\* All commands of the controller, with the microtask queue always served
\* ====================================================================
\* the continuation at the head of the microtask queue runs
Microtask ==
    \/ Hop
    \/ loadInitialData_loaded
    \/ addTransaction_fetch
    \/ addTransaction_finish
    \/ updateTransaction_fetch
    \/ updateTransaction_finish
    \/ deleteTransaction_fetch
    \/ deleteTransaction_finish
    \/ updateSettings_fetch
    \/ updateSettings_finish
    \/ addCategory_finish
    \/ deleteCategory_finish
    \/ importAllData_loaded

CommandsNext ==
    \/ Microtask
    \/ addTransaction
    \/ updateTransaction
    \/ deleteTransaction
    \/ updateSettings
    \/ addCategory
    \/ deleteCategory
    \/ importAllData
    \/ clearAllTransactions
    \/ setSearchQuery
    \/ setSelectedCategory
    \/ setSortBy

\* the queue as the event loop sees it: whose continuation, where, how far off
Queue == [i \in 1..Len(tasks) |-> <<tasks[i].by.cmd, tasks[i].pc, tasks[i].hops>>]

\* the event loop runs every queued microtask
SpecCommands == Init /\ [][CommandsNext]_vars /\ WF_Queue(Microtask)

\* the microtask steps a queued continuation still needs: its hops, and one more
\* for a command that has its second await ahead
StepsLeft(task) ==
    task.hops + (IF task.pc = 1 /\ task.by.cmd \in {"addTransaction", "updateTransaction",
                                                      "deleteTransaction", "updateSettings"}
                 THEN 1 ELSE 0)

RECURSIVE RemainingSteps(_)
RemainingSteps(queue) ==
    IF queue = <<>> THEN 0 ELSE StepsLeft(Head(queue)) + RemainingSteps(Tail(queue))

\* the places where a continuation waits: the command and the await it is at
Continuations ==
    {<<"loadInitialData", 1>>, <<"importAllData", 1>>, <<"addCategory", 1>>, <<"deleteCategory", 1>>}
    \cup ({"addTransaction", "updateTransaction", "deleteTransaction", "updateSettings"} \X {1, 2})

\* the continuation at the head of the queue is one a microtask step takes up
HeadCanRun ==
    \/ Head(tasks).hops > 1
    \/ Head(tasks).hops = 1 /\ <<Head(tasks).by.cmd, Head(tasks).pc>> \in Continuations

\* C38: every controller command eventually completes with isLoading false:
\* whenever no command is in progress the snapshot has isLoading = false, on the
\* success path and on every failure path of the commands and of the initial load.
\* Completion: a queued continuation can always run, and every step that is not
\* the call of a command brings the queued continuations one step nearer their end
C38_LoadingEnds ==
    /\ [](tasks = <<>> => state.isLoading = FALSE)
    /\ [](tasks # <<>> => HeadCanRun)
    /\ [][\/ Len(tasks') > Len(tasks)
          \/ Queue' = Queue
          \/ RemainingSteps(tasks') = RemainingSteps(tasks) - 1]_vars

\* an import has failed in its last step, with nothing else in progress
C38_Witness ==
    /\ tasks = <<>>
    /\ done.cmd = "importAllData"
    /\ done.ret = TRUE
    /\ ~done.result
    /\ state.error # "null"
    /\ ~state.isLoading

loadDataShared(st, heap) ==
    LET now_ == [defaultData EXCEPT !.settings = heap.settings, !.transactions = heap.transactions]
    IN  IF st.k \in {"absent", "garbage", "null"}
        THEN [data |-> now_, shared |-> TRUE]
        ELSE LET parsed == IF st.k = "object" THEN st.v ELSE Empty
                 s == IF Has(parsed, "settings") THEN parsed.settings ELSE Empty
                 txs == IF Has(parsed, "transactions") /\ IsArray(parsed.transactions)
                        THEN parsed.transactions ELSE <<>>
             IN  [data |-> [Spread(now_, parsed) EXCEPT
                               !.settings = Spread(heap.settings, s), !.transactions = txs],
                  shared |-> FALSE]

Outcome(saved, heap) == [store |-> saved.store, ret |-> saved.ret, defaults |-> heap]

\* an add that puts the new transaction into the loaded list itself (unshift)
addTransactionShared_unshift(st, heap, transaction, t, ok) ==
    LET l == loadDataShared(st, heap)
        date == IF Has(transaction, "date") /\ transaction.date # "" THEN transaction.date ELSE DateOf(t)
        amount == IF Has(transaction, "amount") THEN parseFloat(transaction.amount) ELSE NaN
        newTransaction ==
            Spread(transaction,
                   [id |-> t, amount |-> amount, date |-> date, createdAt |-> t, updatedAt |-> t])
        list == <<newTransaction>> \o l.data.transactions
    IN  Outcome(saveData(st, [l.data EXCEPT !.transactions = list], t, ok),
                IF l.shared THEN [heap EXCEPT !.transactions = list] ELSE heap)

\* addTransaction: data.transactions is given a new list
addTransactionShared(st, heap, transaction, t, ok) ==
    LET l == loadDataShared(st, heap)
        date == IF Has(transaction, "date") /\ transaction.date # "" THEN transaction.date ELSE DateOf(t)
        amount == IF Has(transaction, "amount") THEN parseFloat(transaction.amount) ELSE NaN
        newTransaction ==
            Spread(transaction,
                   [id |-> t, amount |-> amount, date |-> date, createdAt |-> t, updatedAt |-> t])
    IN  Outcome(saveData(st, [l.data EXCEPT !.transactions = <<newTransaction>> \o @], t, ok), heap)

\* updateTransaction: data.transactions[index] is written in place
updateTransactionShared(st, heap, id, updates, t, ok) ==
    LET l == loadDataShared(st, heap)
        index == IndexOfId(l.data.transactions, id)
        list == [l.data.transactions EXCEPT ![index] = Set(Spread(@, updates), "updatedAt", t)]
    IN  IF index = 0 THEN [store |-> st, ret |-> FALSE, defaults |-> heap]
        ELSE Outcome(saveData(st, [l.data EXCEPT !.transactions = list], t, ok),
                     IF l.shared THEN [heap EXCEPT !.transactions = list] ELSE heap)

\* deleteTransaction: data.transactions is given the filtered list
deleteTransactionShared(st, heap, id, t, ok) ==
    LET l == loadDataShared(st, heap)
        NotId(tx) == ~(Has(tx, "id") /\ tx.id = id)
        kept == SelectSeq(l.data.transactions, NotId)
    IN  IF Len(kept) < Len(l.data.transactions)
        THEN Outcome(saveData(st, [l.data EXCEPT !.transactions = kept], t, ok), heap)
        ELSE [store |-> st, ret |-> FALSE, defaults |-> heap]

\* updateSettings: data.settings.monthlyBudget is written in place when the
\* currency changes and the loaded budget is truthy; data.settings is then given
\* a new record
updateSettingsShared(st, heap, newSettings, t, ok) ==
    LET l == loadDataShared(st, heap)
        data == l.data
        cur == data.settings.currency
        oldCurrency == IF cur = "" THEN DEFAULT_CURRENCY ELSE cur
        changes == Has(newSettings, "currency") /\ newSettings.currency # ""
                   /\ newSettings.currency # oldCurrency
        newCurrency == newSettings.currency
        txs == IF changes
               THEN [i \in 1..Len(data.transactions) |->
                        Set(data.transactions[i], "amount",
                            convertCurrency(st, AmountOf(data.transactions[i]), oldCurrency, newCurrency))]
               ELSE data.transactions
        inPlace == changes /\ Truthy(data.settings.monthlyBudget)
        budget == IF inPlace
                  THEN convertCurrency(st, data.settings.monthlyBudget, oldCurrency, newCurrency)
                  ELSE data.settings.monthlyBudget
        settings == Spread([data.settings EXCEPT !.monthlyBudget = budget], newSettings)
    IN  Outcome(saveData(st, [data EXCEPT !.transactions = txs, !.settings = settings], t, ok),
                IF inPlace /\ l.shared THEN [heap EXCEPT !.settings.monthlyBudget = budget] ELSE heap)

\* getSettings(): { ...defaultSettings, ...data.settings }
getSettingsShared(st, heap) == Spread(defaultSettings, loadDataShared(st, heap).data.settings)

\* addCategory: the categories are copied into a Set before the new one is added
addCategoryShared(st, heap, category, t, ok) ==
    IF category = "" THEN [store |-> st, ret |-> FALSE, defaults |-> heap]
    ELSE LET categories == Dedup(getSettingsShared(st, heap).categories)
             normalizedNewCategory == trim(category)
             categoryExists == \E i \in 1..Len(categories) :
                                   toLowerCase(categories[i]) = toLowerCase(normalizedNewCategory)
         IN  IF categoryExists THEN [store |-> st, ret |-> FALSE, defaults |-> heap]
             ELSE updateSettingsShared(st, heap,
                      [categories |-> Append(categories, normalizedNewCategory)], t, ok)

\* deleteCategory: the same copy, one category taken out
deleteCategoryShared(st, heap, category, t, ok) ==
    IF category = "" THEN [store |-> st, ret |-> FALSE, defaults |-> heap]
    ELSE LET categories == Dedup(getSettingsShared(st, heap).categories)
             Matches(cat) == toLowerCase(cat) = toLowerCase(category)
             found == \E i \in 1..Len(categories) : Matches(categories[i])
             categoryToDelete ==
                 categories[CHOOSE i \in 1..Len(categories) :
                               Matches(categories[i]) /\ \A j \in 1..(i - 1) : ~Matches(categories[j])]
             Other(cat) == cat # categoryToDelete
         IN  IF ~found \/ Includes(DEFAULT_CATEGORIES, categoryToDelete)
             THEN [store |-> st, ret |-> FALSE, defaults |-> heap]
             ELSE updateSettingsShared(st, heap, [categories |-> SelectSeq(categories, Other)], t, ok)

\* importData: the defaults are spread into new records
importDataShared(st, heap, text, t, ok) ==
    IF text.k \in {"garbage", "null", "scalar"}
    THEN [store |-> st, ret |-> NullRecord, defaults |-> heap]
    ELSE LET data == IF text.k = "array" THEN Empty ELSE text.v
             now_ == [defaultData EXCEPT !.settings = heap.settings,
                                         !.transactions = heap.transactions]
             settings == Spread(heap.settings, IF Has(data, "settings") THEN data.settings ELSE Empty)
             transactions == IF Has(data, "transactions") /\ IsArray(data.transactions)
                             THEN data.transactions ELSE <<>>
             importedData == [Spread(now_, data) EXCEPT
                                 !.settings = settings, !.transactions = transactions]
             saved == saveData(st, importedData, t, ok)
         IN  IF saved.ret THEN [store |-> saved.store, ret |-> importedData, defaults |-> heap]
             ELSE [store |-> st, ret |-> NullRecord, defaults |-> heap]

SharedCall(op, arg, ok, res) ==
    /\ calls < MaxCalls
    /\ calls' = calls + 1
    /\ storage' = res.store
    /\ defaults' = res.defaults
    /\ last' = [op |-> op, arg |-> arg, ret |-> res.ret, pre |-> storage, at |-> now, accept |-> ok]
    /\ UNCHANGED <<now, state, tasks, notified, done, subscribers, uiState>>

SharedAddTransaction ==
    \E draft \in Drafts, ok \in BOOLEAN :
        SharedCall("addTransaction", draft, ok, addTransactionShared(storage, defaults, draft, now, ok))

SharedUpdateTransaction ==
    \E id \in Ids, updates \in TxPatches, ok \in BOOLEAN :
        SharedCall("updateTransaction", [id |-> id, updates |-> updates], ok,
                   updateTransactionShared(storage, defaults, id, updates, now, ok))

SharedDeleteTransaction ==
    \E id \in Ids, ok \in BOOLEAN :
        SharedCall("deleteTransaction", id, ok, deleteTransactionShared(storage, defaults, id, now, ok))

SharedUpdateSettings ==
    \E newSettings \in SettingsPatches, ok \in BOOLEAN :
        SharedCall("updateSettings", newSettings, ok,
                   updateSettingsShared(storage, defaults, newSettings, now, ok))

SharedAddCategory ==
    \E category \in CategoryNames, ok \in BOOLEAN :
        SharedCall("addCategory", category, ok, addCategoryShared(storage, defaults, category, now, ok))

SharedDeleteCategory ==
    \E category \in CategoryNames, ok \in BOOLEAN :
        SharedCall("deleteCategory", category, ok,
                   deleteCategoryShared(storage, defaults, category, now, ok))

SharedImportData ==
    \E text \in ImportTexts, ok \in BOOLEAN :
        SharedCall("importData", text, ok, importDataShared(storage, defaults, text, now, ok))

SharedClearAllData ==
    SharedCall("clearAllData", 0, TRUE,
               [store |-> Absent, ret |-> TRUE, defaults |-> defaults])

\* the module is loaded over nothing, over an earlier session's record, or over
\* a text that cannot be parsed (init() then writes nothing)
SharedInit ==
    /\ calls = 0
    /\ now = 0
    /\ \E found \in {Absent, EarlierSession, Doc("garbage")}, ok \in BOOLEAN :
          storage = IF found = Absent THEN saveData(Absent, defaultData, now, ok).store ELSE found
    /\ last = NoCall
    /\ state = initialState
    /\ tasks = <<>>
    /\ notified = <<>>
    /\ done = NoCommand
    /\ subscribers = <<>>
    /\ uiState = initialUiState
    /\ defaults = sharedDefaults

SharedNext ==
    \/ Tick
    \/ SharedAddTransaction
    \/ SharedUpdateTransaction
    \/ SharedDeleteTransaction
    \/ SharedUpdateSettings
    \/ SharedAddCategory
    \/ SharedDeleteCategory
    \/ SharedImportData
    \/ SharedClearAllData

SpecShared == SharedInit /\ [][SharedNext]_vars

\* C40: no sequence of Store operations modifies the compiled-in defaults, although
\* a load of an absent or unreadable key shares defaultData's settings and list
\* with its caller; hence a load of an absent key returns currency USD, no
\* monthly budget, the six default categories and no transactions
C40_DefaultsUntouched ==
    /\ defaults = sharedDefaults
    /\ LET data == loadDataShared(Absent, defaults).data
       IN  /\ data.settings.currency = "USD"
           /\ data.settings.monthlyBudget = Null
           /\ data.settings.categories = <<"Food", "Books", "Transport", "Entertainment", "Fees", "Other">>
           /\ data.transactions = <<>>

\* the currency was changed, with success, through a record loaded from an absent
\* or unreadable key: the path that converts the budget in place
C40_Witness ==
    /\ last.op = "updateSettings"
    /\ last.pre.k \in {"absent", "garbage"}
    /\ last.accept
    /\ last.ret = TRUE
    /\ Has(last.arg, "currency") /\ last.arg.currency = "EUR"
    /\ storage.k = "object"
    /\ storage.v.settings.currency = "EUR"

====
